---- MODULE Spec2Model ----
(***************************************************************************)
(* Model of the graphsync transport of go-data-transfer                    *)
(* (transport/graphsync/graphsync.go): the correlation store of Transport, *)
(* the exposed operations OpenChannel / PauseChannel / ResumeChannel /     *)
(* CloseChannel / CleanupChannel / SetEventHandler, the goroutine          *)
(* executeGsRequest and the graphsync hooks.                               *)
(*                                                                         *)
(* Every operation is run by a thread.  An operation is cut into steps at  *)
(* the places where the code releases dataLock or calls out to the event   *)
(* handler: one step is one critical section, or one call made without     *)
(* the lock.  Steps of different threads interleave freely.                *)
(***************************************************************************)
EXTENDS Integers, Sequences, FiniteSets, TLC

\* ---------------------------------------------------------------- bounds
MaxTransferID == 1
MaxRequestID == 2
MaxOpens == 2
MaxHandlers == 2
MaxRoots == 2
MaxOps == 4
MaxPendOps == 4
MaxCtxOps == 4
MaxHandlerOps == 4
MaxRecvOps == 3
MaxRejectOps == 4
MaxBlockOps == 6
MaxRespOps == 4
MaxQueueOps == 5
MaxRaceOps == 4
MaxReleaseOps == 3
MaxImplOps == 4
MaxCount == 3

\* ---------------------------------------------------------------- values
Self == "A"
Other == "B"
Peers == {Self, Other}
RemotePeers == {Other}
Threads == {1, 2}

TransferIDs == 1..MaxTransferID
RequestIDs == 1..MaxRequestID
OpenIDs == 1..MaxOpens

\* the zero value of peer.ID
NoPeer == ""

\* datatransfer.ChannelID{Initiator: initiator, ID: id} as this transport and
\* the receiver build it: the composite literal names Initiator and ID, the
\* Responder field of the struct keeps its zero value
ChannelID(initiator, id) ==
    [Initiator |-> initiator, ID |-> id, Responder |-> NoPeer]
Chids == {ChannelID(p, id) : p \in Peers, id \in TransferIDs}
NoChid == [Initiator |-> "none", ID |-> 0, Responder |-> NoPeer]

graphsyncKey(requestID, p) == [requestID |-> requestID, p |-> p]
Keys == [requestID : RequestIDs, p : Peers]
NoKey == [requestID |-> 0, p |-> "none"]

\* message.DataTransferMessage: a request or a response with a transfer id
Msgs == [isRq : BOOLEAN, tid : TransferIDs]
NoMsg == [isRq |-> FALSE, tid |-> 0]
Responses == {m \in Msgs : ~m.isRq}

\* block.BlockSize() of the blocks the hooks are given
BlockSizes == {100}

ExtensionDataTransfer == "fil/data-transfer"

\* msg.ToNet: the outer transferMessage record with its discriminator
ToNet(msg) ==
    [IsRq |-> msg.isRq,
     Request |-> IF msg.isRq THEN msg.tid ELSE 0,
     Response |-> IF msg.isRq THEN 0 ELSE msg.tid]

\* message.FromNet: the inverse; tid 0 in the selected sub-record is a
\* blob that does not parse
FromNet(data) ==
    IF data.IsRq
    THEN [isRq |-> TRUE, tid |-> data.Request]
    ELSE [isRq |-> FALSE, tid |-> data.Response]

\* extension.ToExtensionData
ToExtensionData(msg) == [Name |-> ExtensionDataTransfer, Data |-> ToNet(msg)]

\* what a graphsync request / response / update carries under our name
Malformed == [IsRq |-> TRUE, Request |-> 0, Response |-> 0]
Absent == [IsRq |-> FALSE, Request |-> 0, Response |-> 0]
WireData == {ToNet(m) : m \in Msgs} \cup {Malformed, Absent}

\* mutant: a blob that does not parse counts as no extension
GetTransferDataIgnoring(data) ==
    IF FromNet(data).tid = 0 THEN [msg |-> NoMsg, err |-> "nil"]
    ELSE [msg |-> FromNet(data), err |-> "nil"]

\* mutant: a missing extension counts as one that does not parse
GetTransferDataStrict(data) ==
    IF FromNet(data).tid = 0 THEN [msg |-> NoMsg, err |-> "decode"]
    ELSE [msg |-> FromNet(data), err |-> "nil"]

\* extension.GetTransferData: (msg, nil) | (nil, nil) | (nil, err)
GetTransferData(data) ==
    IF data = Absent THEN [msg |-> NoMsg, err |-> "nil"]
    ELSE IF FromNet(data).tid = 0 THEN [msg |-> NoMsg, err |-> "decode"]
    ELSE [msg |-> FromNet(data), err |-> "nil"]

\* errors an event handler can return
HandlerErrs == {"nil", "ErrPause", "ErrResume", "error"}

\* graphsync.ResponseStatusCode values the listener distinguishes
Statuses == {"RequestCompletedFull", "RequestCompletedPartial", "RequestCancelled"}

\* the errors a graphsync request sends on its error stream
StreamErrors == {"RequestCancelledErr", "error"}

\* the handlers a caller can give to SetEventHandler; t.events is nil before
Handlers == 1..MaxHandlers
NoHandler == 0
\* the handler the manager gives when nothing depends on which one it is
Manager == 1

\* the root links with their selectors a request can name (0: none)
Roots == 1..MaxRoots
NoRoot == 0
\* the root OpenChannel is given when nothing depends on which one it is
AnyRoot == 1

\* what consumeResponses can return
LastErrors == {"nil", "RequestCancelledErr", "error", "errContextCancelled"}

\* ---------------------------------------------------------------- state
VARIABLES
    events,                 \* t.events (NoHandler: nil)
    graphsyncRequestMap,    \* graphsyncKey -> ChannelID (NoChid: no entry)
    channelIDMap,           \* ChannelID -> graphsyncKey (NoKey: no entry)
    contextCancelMap,       \* ChannelID -> the open whose cancel is stored (0: none)
    pending,                \* ChannelID -> chan struct{} (0: no entry)
    requestorCancelledMap,  \* set of ChannelID
    pendingExtensions,      \* ChannelID -> sequence of ExtensionData
    responseProgressMap,    \* ChannelID -> *responseProgress (0: nil)
    heap,                   \* the responseProgress objects
    closedChans,            \* the pending channels that were closed
    cancelledCtx,           \* the opens whose internalCancel was called
    exec,                   \* the executeGsRequest goroutines, one per open
    proc,                   \* per thread: the operation it runs and its locals
    out,                    \* what the last step called out: events, graphsync calls
    hist,                   \* per channel: what has been raised so far
    nops                    \* operations that may still be started

store == <<events, graphsyncRequestMap, channelIDMap, contextCancelMap, pending,
           requestorCancelledMap, pendingExtensions, responseProgressMap, heap,
           closedChans, cancelledCtx>>
vars == <<events, graphsyncRequestMap, channelIDMap, contextCancelMap, pending,
          requestorCancelledMap, pendingExtensions, responseProgressMap, heap,
          closedChans, cancelledCtx, exec, proc, out, hist, nops>>

\* ---------------------------------------------------------------- locals
\* the frame of the receiver under a transport call whose result it drops:
\* the function and the error it returns afterwards
NoCaller == [op |-> "none", err |-> "nil"]

Idle ==
    [op |-> "none", pc |-> "idle", chid |-> NoChid, key |-> NoKey, ch |-> 0,
     p |-> "none", rid |-> 0, data |-> Absent, msg |-> NoMsg, err |-> "nil",
     resp |-> NoMsg, status |-> "none", size |-> 0, rp |-> 0, waited |-> FALSE,
     ctxDone |-> FALSE, h |-> NoHandler, root |-> NoRoot, pull |-> FALSE, update |-> FALSE,
     accepted |-> FALSE, known |-> FALSE,
     caller |-> NoCaller, result |-> "none"]

\* a thread is free when it runs nothing: a call that returned into the
\* receiver is not finished
Free(t) == proc[t].pc \in {"idle", "done"} /\ proc[t].caller = NoCaller

\* the frame under the call thread t runs
Caller(t) == IF Free(t) THEN NoCaller ELSE proc[t].caller

\* a thread takes a new operation when it is free; of the free threads the
\* lowest takes it (threads are interchangeable)
CanStart(t) ==
    /\ Free(t)
    /\ nops > 0
    /\ \A u \in Threads : u < t => ~Free(u)

\* the locals after a step of thread t (0: of a goroutine): what a call
\* returned stays visible in the state its last step leads to, and is dropped
\* by the next step of anyone
Settle(locals, t) ==
    [u \in Threads |->
        IF u # t /\ locals[u].pc = "done" /\ locals[u].caller = NoCaller
        THEN Idle ELSE locals[u]]

Running(t, op, pc) == proc[t].op = op /\ proc[t].pc = pc

Returned(t, op, chid, result) ==
    [Idle EXCEPT !.op = op, !.pc = "done", !.chid = chid, !.result = result,
                 !.caller = Caller(t)]

\* one call made by a step: an Event Interface callback ("event"), a call of
\* the graphsync API ("gs"), or a call on the hook's actions ("hook")
Call(kind, name, chid, key, locked) ==
    [kind |-> kind, name |-> name, chid |-> chid, key |-> key, ok |-> TRUE,
     ext |-> Absent, err |-> "nil", locked |-> locked, root |-> NoRoot]

CallExt(kind, name, chid, key, ext, locked) ==
    [Call(kind, name, chid, key, locked) EXCEPT !.ext = ext]

\* the counters of hist count up to MaxCount
Bump(n) == IF n < MaxCount THEN n + 1 ELSE n

NoHist == [opened |-> FALSE, completed |-> FALSE, cancelled |-> FALSE, sent |-> 0]

\* ---------------------------------------------------------------- Init
\* NewTransport (handler = FALSE), or NewTransport followed by SetEventHandler
\* as the tests set a transport up (handler = TRUE); budget is the number of
\* operations the run may start
InitWith(handler, budget) ==
    /\ events = IF handler THEN Manager ELSE NoHandler
    /\ graphsyncRequestMap = [k \in Keys |-> NoChid]
    /\ channelIDMap = [c \in Chids |-> NoKey]
    /\ contextCancelMap = [c \in Chids |-> 0]
    /\ pending = [c \in Chids |-> 0]
    /\ requestorCancelledMap = {}
    /\ pendingExtensions = [c \in Chids |-> <<>>]
    /\ responseProgressMap = [c \in Chids |-> 0]
    /\ heap = <<>>
    /\ closedChans = {}
    /\ cancelledCtx = {}
    /\ exec = [i \in OpenIDs |-> [pc |-> "none", chid |-> NoChid, lastError |-> "nil"]]
    /\ proc = [t \in Threads |-> Idle]
    /\ out = <<>>
    /\ hist = [c \in Chids |-> NoHist]
    /\ nops = budget

Init == InitWith(FALSE, MaxOps)

\* ---------------------------------------------------------------- store
\* Transport.cleanupChannel (called with dataLock held)
cleanupChannel(chid, gsKey) ==
    /\ channelIDMap' = [channelIDMap EXCEPT ![chid] = NoKey]
    /\ contextCancelMap' = [contextCancelMap EXCEPT ![chid] = 0]
    /\ pending' = [pending EXCEPT ![chid] = 0]
    /\ graphsyncRequestMap' = [k \in Keys |->
            IF k = gsKey THEN NoChid ELSE graphsyncRequestMap[k]]
    /\ responseProgressMap' = [responseProgressMap EXCEPT ![chid] = 0]
    /\ pendingExtensions' = [pendingExtensions EXCEPT ![chid] = <<>>]
    /\ requestorCancelledMap' = requestorCancelledMap \ {chid}

\* mutant: the key is returned whether or not the map has one
gsKeyFromChannelIDUnchecked(chid) ==
    [pc |-> "act", key |-> channelIDMap[chid], ch |-> 0]

\* one pass of the loop of Transport.gsKeyFromChannelID, under RLock:
\* the key, or the pending channel to wait on, or ErrChannelNotFound
gsKeyFromChannelID(chid) ==
    IF channelIDMap[chid] # NoKey
    THEN [pc |-> "act", key |-> channelIDMap[chid], ch |-> 0]
    ELSE IF pending[chid] # 0
    THEN [pc |-> "wait", key |-> NoKey, ch |-> pending[chid]]
    ELSE [pc |-> "done", key |-> NoKey, ch |-> 0]

AfterLookup(t, op, chid, msg) ==
    LET r == gsKeyFromChannelID(chid)
        before == IF Free(t) THEN Idle ELSE proc[t] IN
    IF r.pc = "done"
    THEN [Returned(t, op, chid, "ErrChannelNotFound") EXCEPT !.waited = before.waited]
    ELSE [Idle EXCEPT !.op = op, !.pc = r.pc, !.chid = chid, !.key = r.key,
                      !.ch = r.ch, !.msg = msg,
                      !.waited = (before.waited \/ r.pc = "wait"),
                      !.ctxDone = before.ctxDone, !.caller = before.caller]

\* ---------------------------------------------------------------- API
\* mutant: the test never finds a handler
HandlerSetNever(handler) == FALSE

\* t.events != nil
HandlerSet(handler) == handler # NoHandler

\* Transport.SetEventHandler, the test of t.events (made without a lock)
SetEventHandler(t, h) ==
    /\ CanStart(t)
    /\ nops' = nops - 1
    /\ proc' = Settle([proc EXCEPT ![t] =
            IF HandlerSet(events)
            THEN [Returned(t, "SetEventHandler", NoChid, "ErrHandlerAlreadySet")
                    EXCEPT !.h = h]
            ELSE [Idle EXCEPT !.op = "SetEventHandler", !.pc = "install", !.h = h]], t)
    /\ out' = <<>>
    /\ UNCHANGED <<store, exec, hist>>

\* Transport.SetEventHandler, the assignment and the registration of the hooks
SetEventHandlerInstall(t) ==
    /\ Running(t, "SetEventHandler", "install")
    /\ events' = proc[t].h
    /\ proc' = Settle([proc EXCEPT ![t] =
            [Returned(t, "SetEventHandler", NoChid, "nil") EXCEPT !.h = proc[t].h]], t)
    /\ out' = <<Call("gs", "RegisterHooks", NoChid, NoKey, FALSE)>>
    /\ UNCHANGED <<graphsyncRequestMap, channelIDMap, contextCancelMap, pending,
                   requestorCancelledMap, pendingExtensions, responseProgressMap,
                   heap, closedChans, cancelledCtx, exec, hist, nops>>

NewOpenID == Cardinality({i \in OpenIDs : exec[i].pc # "none"}) + 1

\* what OpenChannel returns
OpenChannelResult == IF HandlerSet(events) THEN "nil" ELSE "ErrHandlerNotSet"

\* Transport.OpenChannel, what it does to the store and the calls it makes
OpenChannelBody(dataSender, chid, root, msg) ==
    /\ IF ~HandlerSet(events)
       THEN /\ out' = <<>>
            /\ UNCHANGED <<pending, contextCancelMap, exec>>
       ELSE /\ NewOpenID \in OpenIDs
            /\ pending' = [pending EXCEPT ![chid] = NewOpenID]
            /\ contextCancelMap' = [contextCancelMap EXCEPT ![chid] = NewOpenID]
            /\ exec' = [exec EXCEPT ![NewOpenID] =
                            [pc |-> "consume", chid |-> chid, lastError |-> "nil"]]
            /\ out' = <<[CallExt("gs", "Request", chid, graphsyncKey(0, dataSender),
                                 ToExtensionData(msg).Data, FALSE)
                            EXCEPT !.root = root]>>
    /\ UNCHANGED <<events, graphsyncRequestMap, channelIDMap, requestorCancelledMap,
                   pendingExtensions, responseProgressMap, heap, closedChans,
                   cancelledCtx, hist>>

\* Transport.OpenChannel
OpenChannel(t, dataSender, chid, msg) ==
    /\ CanStart(t)
    /\ nops' = nops - 1
    /\ OpenChannelBody(dataSender, chid, AnyRoot, msg)
    /\ proc' = Settle([proc EXCEPT ![t] =
            Returned(t, "OpenChannel", chid, OpenChannelResult)], t)

\* Transport.consumeResponses, an error arrives on the stream:
\* lastError = err
consumeResponses(i, err) ==
    /\ exec[i].pc = "consume"
    /\ exec[i].lastError # err
    /\ exec' = [exec EXCEPT ![i].lastError = err]
    /\ out' = <<>>
    /\ proc' = Settle(proc, 0)
    /\ UNCHANGED <<store, hist, nops>>

\* mutant: completion is raised whatever the last error was
IsRequestCancelledNever(lastError) == FALSE

\* _, ok := lastError.(graphsync.RequestCancelledErr)
IsRequestCancelled(lastError) == lastError = "RequestCancelledErr"

\* Transport.executeGsRequest up to the callback: consumeResponses returns
\* lastError, which is the last error of the stream when the stream was
\* closed and errContextCancelled when the context of OpenChannel ended
\* first, and completion is raised unless the request was cancelled
executeGsRequest(i, lastError) ==
    /\ exec[i].pc = "consume"
    /\ lastError \in {exec[i].lastError, "errContextCancelled"}
    /\ exec' = [exec EXCEPT ![i].pc = "cleanup", ![i].lastError = lastError]
    /\ IF ~IsRequestCancelled(lastError)
       THEN /\ out' = <<[Call("event", "OnChannelCompleted", exec[i].chid, NoKey, FALSE)
                            EXCEPT !.ok = (lastError = "nil")]>>
            /\ hist' = [hist EXCEPT ![exec[i].chid].completed = TRUE]
       ELSE /\ out' = <<>>
            /\ hist' = hist
    /\ proc' = Settle(proc, 0)
    /\ UNCHANGED <<store, nops>>

\* Transport.executeGsRequest, the critical section that ends it
executeGsRequestCleanup(i) ==
    /\ exec[i].pc = "cleanup"
    /\ LET channelID == exec[i].chid
           gsKey == channelIDMap[channelID] IN
        /\ channelIDMap' = [channelIDMap EXCEPT ![channelID] = NoKey]
        /\ contextCancelMap' = [contextCancelMap EXCEPT ![channelID] = 0]
        /\ pending' = [pending EXCEPT ![channelID] = 0]
        /\ graphsyncRequestMap' = [k \in Keys |->
                IF k = gsKey THEN NoChid ELSE graphsyncRequestMap[k]]
    /\ exec' = [exec EXCEPT ![i] = [pc |-> "done", chid |-> NoChid, lastError |-> "nil"]]
    /\ out' = <<>>
    /\ proc' = Settle(proc, 0)
    /\ UNCHANGED <<events, requestorCancelledMap, pendingExtensions,
                   responseProgressMap, heap, closedChans, cancelledCtx, hist, nops>>

\* the start of PauseChannel, ResumeChannel and CloseChannel: the handler
\* check and the first pass of gsKeyFromChannelID
Entered(t, op, chid, msg) ==
    IF ~HandlerSet(events) THEN Returned(t, op, chid, "ErrHandlerNotSet")
    ELSE AfterLookup(t, op, chid, msg)

ControlCall(t, op, chid, msg) ==
    /\ CanStart(t)
    /\ nops' = nops - 1
    /\ proc' = Settle([proc EXCEPT ![t] = Entered(t, op, chid, msg)], t)
    /\ out' = <<>>
    /\ UNCHANGED <<store, exec, hist>>

\* Transport.PauseChannel, up to the key
PauseChannel(t, chid) == ControlCall(t, "PauseChannel", chid, NoMsg)

\* Transport.ResumeChannel, up to the key
ResumeChannel(t, msg, chid) == ControlCall(t, "ResumeChannel", chid, msg)

\* Transport.CloseChannel, up to the key
CloseChannel(t, chid) == ControlCall(t, "CloseChannel", chid, NoMsg)

\* gsKeyFromChannelID: the pending channel was closed, the loop runs again
gsKeyFromChannelIDWake(t) ==
    /\ proc[t].pc = "wait"
    /\ proc[t].ch \in closedChans
    /\ proc' = Settle([proc EXCEPT ![t] =
            AfterLookup(t, proc[t].op, proc[t].chid, proc[t].msg)], t)
    /\ out' = <<>>
    /\ UNCHANGED <<store, exec, hist, nops>>

\* the context the caller gave to the control call ends while the call waits
ContextDone(t) ==
    /\ proc[t].pc = "wait"
    /\ ~proc[t].ctxDone
    /\ proc' = Settle([proc EXCEPT ![t].ctxDone = TRUE], t)
    /\ out' = <<>>
    /\ UNCHANGED <<store, exec, hist, nops>>

\* mutant: the select has no case for the context
gsKeyFromChannelIDCtxIgnored(t) ==
    /\ proc[t].pc = "wait"
    /\ FALSE
    /\ UNCHANGED vars

\* gsKeyFromChannelID: case <-ctx.Done() of the select
gsKeyFromChannelIDCtxDone(t) ==
    /\ proc[t].pc = "wait"
    /\ proc[t].ctxDone
    /\ proc' = Settle([proc EXCEPT ![t] =
            [Returned(t, proc[t].op, proc[t].chid, "ErrChannelNotFound")
                EXCEPT !.waited = TRUE, !.ctxDone = TRUE]], t)
    /\ out' = <<>>
    /\ UNCHANGED <<store, exec, hist, nops>>

\* mutant: the sides are swapped
IsRequesterSwapped(gsKey) == gsKey.p # Self

\* gsKey.p == t.peerID: the local peer made the graphsync request
IsRequester(gsKey) == gsKey.p = Self

\* mutant: the flag is not looked at
RequestorCancelledIgnored(chid) == FALSE

\* the requestorCancelledMap test of the responder branch of the control calls
RequestorCancelled(chid) == chid \in requestorCancelledMap

\* Transport.PauseChannel, with the key
PauseChannelAct(t) ==
    /\ Running(t, "PauseChannel", "act")
    /\ LET chid == proc[t].chid
           gsKey == proc[t].key IN
        /\ out' = IF IsRequester(gsKey)
                  THEN <<Call("gs", "PauseRequest", chid, gsKey, FALSE)>>
                  ELSE IF RequestorCancelled(chid) THEN <<>>
                  ELSE <<Call("gs", "PauseResponse", chid, gsKey, TRUE)>>
        /\ proc' = Settle([proc EXCEPT ![t] =
                [Returned(t, "PauseChannel", chid, "nil") EXCEPT !.key = gsKey, !.waited = proc[t].waited]], t)
    /\ UNCHANGED <<store, exec, hist, nops>>

\* mutant: the message given to ResumeChannel is not sent
ExtensionsDropped(msg) == <<>>

\* the extensions ResumeChannel builds from msg
Extensions(msg) == IF msg # NoMsg THEN <<ToExtensionData(msg).Data>> ELSE <<>>

ExtOf(extensions) == IF extensions = <<>> THEN Absent ELSE extensions[1]

\* Transport.ResumeChannel, with the key
ResumeChannelAct(t) ==
    /\ Running(t, "ResumeChannel", "act")
    /\ LET chid == proc[t].chid
           gsKey == proc[t].key
           extensions == Extensions(proc[t].msg) IN
        /\ IF IsRequester(gsKey)
           THEN /\ out' = <<CallExt("gs", "UnpauseRequest", chid, gsKey,
                                    ExtOf(extensions), FALSE)>>
                /\ UNCHANGED pendingExtensions
           ELSE IF RequestorCancelled(chid)
           THEN /\ out' = <<>>
                /\ pendingExtensions' = [pendingExtensions EXCEPT
                        ![chid] = @ \o extensions]
           ELSE /\ out' = <<CallExt("gs", "UnpauseResponse", chid, gsKey,
                                    ExtOf(extensions), TRUE)>>
                /\ UNCHANGED pendingExtensions
        /\ proc' = Settle([proc EXCEPT ![t] =
                [Returned(t, "ResumeChannel", chid, "nil") EXCEPT !.key = gsKey, !.waited = proc[t].waited]], t)
    /\ UNCHANGED <<events, graphsyncRequestMap, channelIDMap, contextCancelMap,
                   pending, requestorCancelledMap, responseProgressMap, heap,
                   closedChans, cancelledCtx, exec, hist, nops>>

\* Transport.CloseChannel, with the key
CloseChannelAct(t) ==
    /\ Running(t, "CloseChannel", "act")
    /\ LET chid == proc[t].chid
           gsKey == proc[t].key IN
        IF IsRequester(gsKey)
        THEN /\ IF contextCancelMap[chid] = 0
                THEN /\ proc' = Settle([proc EXCEPT ![t] =
                            Returned(t, "CloseChannel", chid, "ErrChannelNotFound")], t)
                     /\ out' = <<>>
                     /\ UNCHANGED cancelledCtx
                ELSE /\ proc' = Settle([proc EXCEPT ![t] =
                            [Returned(t, "CloseChannel", chid, "nil") EXCEPT !.key = gsKey, !.waited = proc[t].waited]], t)
                     /\ out' = <<Call("ctx", "cancel", chid, gsKey, FALSE)>>
                     /\ cancelledCtx' = cancelledCtx \cup {contextCancelMap[chid]}
             /\ UNCHANGED <<graphsyncRequestMap, channelIDMap, contextCancelMap,
                            pending, requestorCancelledMap, pendingExtensions,
                            responseProgressMap>>
        ELSE /\ proc' = Settle([proc EXCEPT ![t] =
                    [Returned(t, "CloseChannel", chid, "nil") EXCEPT !.key = gsKey, !.waited = proc[t].waited]], t)
             /\ IF RequestorCancelled(chid)
                THEN /\ cleanupChannel(chid, gsKey)
                     /\ out' = <<>>
                ELSE /\ out' = <<Call("gs", "CancelResponse", chid, gsKey, TRUE)>>
                     /\ UNCHANGED <<graphsyncRequestMap, channelIDMap, contextCancelMap,
                                    pending, requestorCancelledMap, pendingExtensions,
                                    responseProgressMap>>
             /\ UNCHANGED cancelledCtx
    /\ UNCHANGED <<events, heap, closedChans, exec, hist, nops>>

\* Transport.CleanupChannel
CleanupChannel(t, chid) ==
    /\ CanStart(t)
    /\ nops' = nops - 1
    /\ IF channelIDMap[chid] # NoKey
       THEN cleanupChannel(chid, channelIDMap[chid])
       ELSE UNCHANGED <<graphsyncRequestMap, channelIDMap, contextCancelMap,
                        pending, requestorCancelledMap, pendingExtensions,
                        responseProgressMap>>
    /\ proc' = Settle([proc EXCEPT ![t] = Returned(t, "CleanupChannel", chid, "nil")], t)
    /\ out' = <<>>
    /\ UNCHANGED <<events, heap, closedChans, cancelledCtx, exec, hist>>

\* ---------------------------------------------------------------- receiver
\* the messages of the side channel
Requests == {m \in Msgs : m.isRq}
ReceiverOps == {"receiveRequest", "receiveResponse"}
SendErrs == {"nil", "error"}

\* !response.IsUpdate() && response.Accepted() && !incoming.IsPull()
OpensChannel(update, accepted, pull) == ~update /\ accepted /\ ~pull

\* the receiver after the response was dispatched, or when there is none:
\* PauseChannel for ErrPause, CloseChannel for another error, else return nil
AfterDispatch(rec) ==
    IF rec.err = "ErrPause" THEN [rec EXCEPT !.pc = "pause"]
    ELSE IF rec.err # "nil" THEN [rec EXCEPT !.pc = "close"]
    ELSE [rec EXCEPT !.pc = "done", !.result = "nil"]

\* mutant: an error that is no sentinel closes without the dispatch
AfterRequestErrorFirst(rec) ==
    IF rec.err = "ErrResume" THEN [rec EXCEPT !.pc = "resume"]
    ELSE IF rec.err \notin {"nil", "ErrPause"} THEN [rec EXCEPT !.pc = "close"]
    ELSE IF rec.resp # NoMsg THEN [rec EXCEPT !.pc = "dispatch"]
    ELSE AfterDispatch(rec)

\* receiveRequest after OnRequestReceived returned (rec.resp, rec.err)
AfterRequest(rec) ==
    IF rec.err = "ErrResume" THEN [rec EXCEPT !.pc = "resume"]
    ELSE IF rec.resp # NoMsg THEN [rec EXCEPT !.pc = "dispatch"]
    ELSE AfterDispatch(rec)

\* receiveResponse after OnResponseReceived returned rec.err
AfterResponse(rec) ==
    IF rec.err = "ErrResume" THEN [rec EXCEPT !.pc = "resume"]
    ELSE AfterDispatch(rec)

\* receiver.receiveRequest, up to the return of manager.OnRequestReceived;
\* update and accepted are the flags of the response, pull and root those
\* of the request
receiveRequest(t, initiator, incoming, pull, root, response, update, accepted, receiveErr) ==
    /\ CanStart(t)
    /\ nops' = nops - 1
    /\ LET chid == ChannelID(initiator, incoming.tid)
           rec == [Idle EXCEPT !.op = "receiveRequest", !.chid = chid,
                               !.p = initiator, !.msg = incoming, !.root = root,
                               !.resp = response, !.err = receiveErr,
                               !.pull = pull, !.update = update,
                               !.accepted = accepted] IN
        /\ proc' = Settle([proc EXCEPT ![t] = AfterRequest(rec)], t)
        /\ out' = <<[Call("manager", "OnRequestReceived", chid, NoKey, FALSE)
                        EXCEPT !.err = receiveErr]>>
    /\ UNCHANGED <<store, exec, hist>>

\* receiver.receiveRequest, transport.OpenChannel with the response
receiveRequestOpenChannel(t) ==
    /\ Running(t, "receiveRequest", "dispatch")
    /\ OpensChannel(proc[t].update, proc[t].accepted, proc[t].pull)
    /\ OpenChannelBody(proc[t].p, proc[t].chid, proc[t].root, proc[t].resp)
    /\ proc' = Settle([proc EXCEPT ![t] =
            IF OpenChannelResult # "nil"
            THEN [proc[t] EXCEPT !.pc = "done", !.result = OpenChannelResult]
            ELSE AfterDispatch(proc[t])], t)
    /\ nops' = nops

\* receiver.receiveRequest, dataTransferNetwork.SendMessage with the response
receiveRequestSendMessage(t, err) ==
    /\ Running(t, "receiveRequest", "dispatch")
    /\ ~OpensChannel(proc[t].update, proc[t].accepted, proc[t].pull)
    /\ out' = <<[CallExt("network", "SendMessage", proc[t].chid,
                         graphsyncKey(0, proc[t].p), ToNet(proc[t].resp), FALSE)
                    EXCEPT !.err = err]>>
    /\ proc' = Settle([proc EXCEPT ![t] =
            IF err # "nil"
            THEN [proc[t] EXCEPT !.pc = "done", !.result = err]
            ELSE AfterDispatch(proc[t])], t)
    /\ UNCHANGED <<store, exec, hist, nops>>

\* the receiver enters a control call of the transport
TransportCall(t, op, msg, caller) ==
    /\ proc' = Settle([proc EXCEPT ![t] =
            [Entered(t, op, proc[t].chid, msg) EXCEPT !.caller = caller]], t)
    /\ out' = <<CallExt("transport", op, proc[t].chid, NoKey,
                        IF msg = NoMsg THEN Absent ELSE ToNet(msg), FALSE)>>
    /\ UNCHANGED <<store, exec, hist, nops>>

\* return transport.ResumeChannel(ctx, response, chid), of receiveRequest,
\* and return transport.ResumeChannel(ctx, nil, chid), of receiveResponse
receiverResumeChannel(t) ==
    /\ proc[t].op \in ReceiverOps /\ proc[t].pc = "resume"
    /\ TransportCall(t, "ResumeChannel", proc[t].resp, NoCaller)

\* return transport.PauseChannel(ctx, chid)
receiverPauseChannel(t) ==
    /\ proc[t].op \in ReceiverOps /\ proc[t].pc = "pause"
    /\ TransportCall(t, "PauseChannel", NoMsg, NoCaller)

\* _ = transport.CloseChannel(ctx, chid)
receiverCloseChannel(t) ==
    /\ proc[t].op \in ReceiverOps /\ proc[t].pc = "close"
    /\ TransportCall(t, "CloseChannel", NoMsg,
                     [op |-> proc[t].op, err |-> proc[t].err])

\* return receiveErr, once CloseChannel has returned
receiverReturn(t) ==
    /\ proc[t].pc = "done" /\ proc[t].caller # NoCaller
    /\ proc' = Settle([proc EXCEPT ![t] =
            [Idle EXCEPT !.op = proc[t].caller.op, !.pc = "done",
                         !.chid = proc[t].chid, !.err = proc[t].caller.err,
                         !.result = proc[t].caller.err]], t)
    /\ out' = <<>>
    /\ UNCHANGED <<store, exec, hist, nops>>

\* receiver.receiveResponse, up to the return of manager.OnResponseReceived
receiveResponse(t, sender, incoming, err) ==
    /\ CanStart(t)
    /\ nops' = nops - 1
    /\ LET chid == ChannelID(Self, incoming.tid)
           rec == [Idle EXCEPT !.op = "receiveResponse", !.chid = chid,
                               !.p = sender, !.msg = incoming, !.err = err] IN
        /\ proc' = Settle([proc EXCEPT ![t] = AfterResponse(rec)], t)
        /\ out' = <<[Call("manager", "OnResponseReceived", chid, NoKey, FALSE)
                        EXCEPT !.err = err]>>
    /\ UNCHANGED <<store, exec, hist>>

\* ---------------------------------------------------------------- hooks
\* a hook is run by graphsync once SetEventHandler registered it
HookStart(t) == CanStart(t) /\ HandlerSet(events)

HookActions(chid, names) ==
    [n \in 1..Len(names) |-> Call("hook", names[n], chid, NoKey, FALSE)]

\* hookActions.TerminateWithError(err)
TerminateWithError(chid, err) ==
    <<[Call("hook", "TerminateWithError", chid, NoKey, FALSE) EXCEPT !.err = err]>>

\* mutant: the Pause sentinel terminates like any other error
TerminatesOnPause(err) == err # "nil"

\* err != nil && err != transport.ErrPause
Terminates(err) == err \notin {"nil", "ErrPause"}

\* mutant: the Pause sentinel of OnDataReceived is not acted on
IncomingBlockActionsNoPause(chid, err) ==
    IF Terminates(err) THEN TerminateWithError(chid, err) ELSE <<>>

\* the hook actions of gsIncomingBlockHook after OnDataReceived returned err
IncomingBlockActions(chid, err) ==
    IF Terminates(err) THEN TerminateWithError(chid, err)
    ELSE IF err = "ErrPause" THEN HookActions(chid, <<"PauseRequest">>)
    ELSE <<>>

\* mutant: the message is sent whatever the error
OutgoingBlockActionsAlwaysSend(chid, msg, err) ==
    (IF Terminates(err) THEN TerminateWithError(chid, err)
     ELSE IF err = "ErrPause" THEN HookActions(chid, <<"PauseResponse">>)
     ELSE <<>>)
    \o (IF msg # NoMsg
        THEN <<CallExt("hook", "SendExtensionData", chid, NoKey,
                       ToExtensionData(msg).Data, FALSE)>>
        ELSE <<>>)

\* the hook actions of gsOutgoingBlockHook after OnDataSent returned
\* (msg, err)
OutgoingBlockActions(chid, msg, err) ==
    IF Terminates(err) THEN TerminateWithError(chid, err)
    ELSE (IF err = "ErrPause" THEN HookActions(chid, <<"PauseResponse">>) ELSE <<>>)
         \o (IF msg # NoMsg
             THEN <<CallExt("hook", "SendExtensionData", chid, NoKey,
                            ToExtensionData(msg).Data, FALSE)>>
             ELSE <<>>)

\* mutant: the hook binds whatever OnChannelOpened returned
BindOutgoingAlways(err) == TRUE

\* the binding made by gsOutgoingRequestHook when OnChannelOpened returned err
BindOutgoing(err) == err = "nil"

\* the channel-id gsOutgoingRequestHook computes for a request to p that
\* carries data
OutgoingChannelID(p, data) ==
    LET message == GetTransferData(data).msg
        initiator == IF message.isRq THEN Self ELSE p IN
    ChannelID(initiator, message.tid)

\* Transport.gsOutgoingRequestHook, up to the return of OnChannelOpened
gsOutgoingRequestHook(t, p, rid, data, err) ==
    /\ HookStart(t)
    /\ nops' = nops - 1
    /\ LET message == GetTransferData(data).msg
           chid == OutgoingChannelID(p, data) IN
        IF message = NoMsg
        THEN /\ proc' = Settle([proc EXCEPT ![t] =
                    [Returned(t, "gsOutgoingRequestHook", NoChid, "none")
                        EXCEPT !.data = data, !.rid = rid]], t)
             /\ out' = <<>>
             /\ hist' = hist
        ELSE /\ proc' = Settle([proc EXCEPT ![t] =
                    [Idle EXCEPT !.op = "gsOutgoingRequestHook", !.pc = "commit",
                                 !.chid = chid, !.rid = rid, !.p = p, !.err = err,
                                 !.data = data]], t)
             /\ out' = <<[Call("event", "OnChannelOpened", chid, NoKey, FALSE)
                            EXCEPT !.err = err]>>
             /\ hist' = [hist EXCEPT ![chid].opened = TRUE]
    /\ UNCHANGED <<store, exec>>

\* mutant: the closed channel stays in t.pending
RemovePendingKept(chid) == pending

\* delete(t.pending, chid) after close(pending)
RemovePending(chid) == [pending EXCEPT ![chid] = 0]

\* Transport.gsOutgoingRequestHook, the critical section
gsOutgoingRequestHookCommit(t) ==
    /\ Running(t, "gsOutgoingRequestHook", "commit")
    /\ LET chid == proc[t].chid
           gsKey == graphsyncKey(proc[t].rid, Self) IN
        /\ IF BindOutgoing(proc[t].err)
           THEN /\ graphsyncRequestMap' = [graphsyncRequestMap EXCEPT ![gsKey] = chid]
                /\ channelIDMap' = [channelIDMap EXCEPT ![chid] = gsKey]
           ELSE UNCHANGED <<graphsyncRequestMap, channelIDMap>>
        /\ IF pending[chid] # 0
           THEN /\ closedChans' = closedChans \cup {pending[chid]}
                /\ pending' = RemovePending(chid)
           ELSE UNCHANGED <<closedChans, pending>>
        /\ proc' = Settle([proc EXCEPT ![t] =
                [Returned(t, "gsOutgoingRequestHook", chid, "none")
                    EXCEPT !.key = gsKey, !.err = proc[t].err]], t)
    /\ out' = <<>>
    /\ UNCHANGED <<events, contextCancelMap, requestorCancelledMap, pendingExtensions,
                   responseProgressMap, heap, cancelledCtx, exec, hist, nops>>

\* Transport.gsIncomingBlockHook, the lookup under RLock
gsIncomingBlockHook(t, p, rid) ==
    /\ HookStart(t)
    /\ nops' = nops - 1
    /\ LET chid == graphsyncRequestMap[graphsyncKey(rid, Self)] IN
        proc' = Settle([proc EXCEPT ![t] =
            IF chid = NoChid
            THEN [Returned(t, "gsIncomingBlockHook", NoChid, "none")
                    EXCEPT !.rid = rid, !.p = p]
            ELSE [Idle EXCEPT !.op = "gsIncomingBlockHook", !.pc = "call",
                              !.chid = chid, !.rid = rid, !.p = p]], t)
    /\ out' = <<>>
    /\ UNCHANGED <<store, exec, hist>>

\* Transport.gsIncomingBlockHook, OnDataReceived and the hook actions
gsIncomingBlockHookCall(t, err) ==
    /\ Running(t, "gsIncomingBlockHook", "call")
    /\ LET chid == proc[t].chid IN
        /\ out' = <<[Call("event", "OnDataReceived", chid, NoKey, FALSE)
                        EXCEPT !.err = err]>>
                  \o IncomingBlockActions(chid, err)
        /\ hist' = hist
        /\ proc' = Settle([proc EXCEPT ![t] =
                [Returned(t, "gsIncomingBlockHook", chid, "none") EXCEPT !.err = err]], t)
    /\ UNCHANGED <<store, exec, nops>>

\* Transport.gsOutgoingBlockHook, the lookup under RLock
gsOutgoingBlockHook(t, p, rid, size) ==
    /\ HookStart(t)
    /\ nops' = nops - 1
    /\ LET chid == graphsyncRequestMap[graphsyncKey(rid, p)] IN
        proc' = Settle([proc EXCEPT ![t] =
            IF chid = NoChid
            THEN [Returned(t, "gsOutgoingBlockHook", NoChid, "none")
                    EXCEPT !.rid = rid, !.p = p]
            ELSE [Idle EXCEPT !.op = "gsOutgoingBlockHook", !.pc = "load",
                              !.chid = chid, !.rid = rid, !.p = p, !.size = size,
                              !.rp = responseProgressMap[chid]]], t)
    /\ out' = <<>>
    /\ UNCHANGED <<store, exec, hist>>

\* rp.currentSent += block.BlockSize(), the read: a nil rp panics
gsOutgoingBlockHookLoad(t) ==
    /\ Running(t, "gsOutgoingBlockHook", "load")
    /\ proc' = Settle([proc EXCEPT ![t] =
            IF proc[t].rp = 0
            THEN Returned(t, "gsOutgoingBlockHook", proc[t].chid, "panic")
            ELSE [proc[t] EXCEPT !.pc = "store",
                                 !.size = heap[proc[t].rp].currentSent + proc[t].size]], t)
    /\ out' = <<>>
    /\ UNCHANGED <<store, exec, hist, nops>>

\* mutant: no block counts as sent before
AlreadySentNever(currentSent, maximumSent) == FALSE

\* the deduplication test of gsOutgoingBlockHook
AlreadySent(currentSent, maximumSent) == currentSent <= maximumSent

\* &responseProgress{}; peak and adds are history variables: the largest
\* value currentSent has had, and the number of blocks added to currentSent
\* since it was last set to 0
NewProgress == [currentSent |-> 0, maximumSent |-> 0, peak |-> 0, adds |-> 0]

\* rp.currentSent += block.BlockSize(), the write; dataLock is not held
gsOutgoingBlockHookStore(t) ==
    /\ Running(t, "gsOutgoingBlockHook", "store")
    /\ heap' = [heap EXCEPT ![proc[t].rp].currentSent = proc[t].size,
                            ![proc[t].rp].peak = IF proc[t].size > @ THEN proc[t].size ELSE @,
                            ![proc[t].rp].adds = @ + 1]
    /\ proc' = Settle([proc EXCEPT ![t].pc = "test"], t)
    /\ out' = <<>>
    /\ UNCHANGED <<events, graphsyncRequestMap, channelIDMap, contextCancelMap, pending,
                   requestorCancelledMap, pendingExtensions, responseProgressMap,
                   closedChans, cancelledCtx, exec, hist, nops>>

\* a read of rp.currentSent after the hook's own write, without the lock:
\* the value the hook wrote (kept in a register) or the value in memory
CurrentSentRead(t, reread) ==
    IF reread THEN heap[proc[t].rp].currentSent ELSE proc[t].size

\* if rp.currentSent <= rp.maximumSent { return }
gsOutgoingBlockHookTest(t, reread) ==
    /\ Running(t, "gsOutgoingBlockHook", "test")
    /\ LET currentSent == CurrentSentRead(t, reread) IN
        proc' = Settle([proc EXCEPT ![t] =
            IF AlreadySent(currentSent, heap[proc[t].rp].maximumSent)
            THEN Returned(t, "gsOutgoingBlockHook", proc[t].chid, "none")
            ELSE [proc[t] EXCEPT !.pc = "max", !.size = currentSent]], t)
    /\ out' = <<>>
    /\ UNCHANGED <<store, exec, hist, nops>>

\* rp.maximumSent = rp.currentSent
gsOutgoingBlockHookMax(t, reread) ==
    /\ Running(t, "gsOutgoingBlockHook", "max")
    /\ heap' = [heap EXCEPT ![proc[t].rp].maximumSent = CurrentSentRead(t, reread)]
    /\ proc' = Settle([proc EXCEPT ![t].pc = "call"], t)
    /\ out' = <<>>
    /\ UNCHANGED <<events, graphsyncRequestMap, channelIDMap, contextCancelMap, pending,
                   requestorCancelledMap, pendingExtensions, responseProgressMap,
                   closedChans, cancelledCtx, exec, hist, nops>>

\* Transport.gsOutgoingBlockHook, OnDataSent and the hook actions
gsOutgoingBlockHookCall(t, msg, err) ==
    /\ Running(t, "gsOutgoingBlockHook", "call")
    /\ LET chid == proc[t].chid IN
        /\ out' = <<[Call("event", "OnDataSent", chid, graphsyncKey(proc[t].rid, proc[t].p),
                          FALSE) EXCEPT !.err = err]>>
                  \o OutgoingBlockActions(chid, msg, err)
        /\ proc' = Settle([proc EXCEPT ![t] =
                [Returned(t, "gsOutgoingBlockHook", chid, "none") EXCEPT !.err = err]], t)
    /\ hist' = [hist EXCEPT ![proc[t].chid].sent = Bump(@)]
    /\ UNCHANGED <<store, exec, nops>>

\* Transport.gsReqRecdHook, up to the critical section: decode, the handler
\* call and the hook actions that follow from what it returned
gsReqRecdHook(t, p, rid, data, resp, err) ==
    /\ HookStart(t)
    /\ nops' = nops - 1
    /\ LET r == GetTransferData(data)
           msg == r.msg
           chid == IF msg.isRq THEN ChannelID(p, msg.tid) ELSE ChannelID(Self, msg.tid)
           responseMessage == IF msg.isRq THEN resp ELSE NoMsg IN
        IF r.err # "nil"
        THEN /\ proc' = Settle([proc EXCEPT ![t] =
                    [Returned(t, "gsReqRecdHook", NoChid, "terminated")
                        EXCEPT !.data = data, !.rid = rid, !.p = p]], t)
             /\ out' = <<[Call("hook", "TerminateWithError", NoChid, graphsyncKey(rid, p),
                               FALSE) EXCEPT !.err = r.err]>>
             /\ hist' = hist
        ELSE IF msg = NoMsg
        THEN /\ proc' = Settle([proc EXCEPT ![t] =
                    [Returned(t, "gsReqRecdHook", NoChid, "none")
                        EXCEPT !.data = data, !.rid = rid, !.p = p]], t)
             /\ out' = <<>>
             /\ hist' = hist
        ELSE /\ out' =
                    <<[Call("event",
                            IF msg.isRq THEN "OnRequestReceived" ELSE "OnResponseReceived",
                            chid, graphsyncKey(rid, p), FALSE) EXCEPT !.err = err]>>
                    \o (IF responseMessage # NoMsg
                        THEN <<CallExt("hook", "SendExtensionData", chid, graphsyncKey(rid, p),
                                       ToExtensionData(responseMessage).Data, FALSE)>>
                        ELSE <<>>)
                    \o (IF Terminates(err)
                        THEN <<[Call("hook", "TerminateWithError", chid, graphsyncKey(rid, p),
                                     FALSE) EXCEPT !.err = err]>>
                        ELSE IF err = "ErrPause"
                        THEN <<Call("hook", "PauseResponse", chid, graphsyncKey(rid, p), FALSE)>>
                        ELSE <<>>)
             /\ proc' = Settle([proc EXCEPT ![t] =
                    IF Terminates(err)
                    THEN [Returned(t, "gsReqRecdHook", chid, "terminated")
                            EXCEPT !.err = err, !.data = data, !.rid = rid, !.p = p,
                                   !.resp = responseMessage]
                    ELSE [Idle EXCEPT !.op = "gsReqRecdHook", !.pc = "commit", !.chid = chid,
                                      !.rid = rid, !.p = p, !.err = err,
                                      !.data = data, !.resp = responseMessage]], t)
             /\ hist' = hist
    /\ UNCHANGED <<store, exec>>

\* mutant: the queue is sent last in, first out
FlushReversed(chid, gsKey, extensions) ==
    [n \in 1..Len(extensions) |->
        CallExt("hook", "SendExtensionData", chid, gsKey,
                extensions[Len(extensions) + 1 - n], TRUE)]

\* for _, ext := range extensions { hookActions.SendExtensionData(ext) }
Flush(chid, gsKey, extensions) ==
    [n \in 1..Len(extensions) |->
        CallExt("hook", "SendExtensionData", chid, gsKey, extensions[n], TRUE)]

\* mutant: the reset drops the high-water mark too
ResetProgressBoth(existing) ==
    [existing EXCEPT !.currentSent = 0, !.adds = 0, !.maximumSent = 0]

\* the responseProgress record after gsReqRecdHook found one
ResetProgress(existing) == [existing EXCEPT !.currentSent = 0, !.adds = 0]

\* Transport.gsReqRecdHook, the critical section and ValidateRequest
gsReqRecdHookCommit(t) ==
    /\ Running(t, "gsReqRecdHook", "commit")
    /\ LET chid == proc[t].chid
           gsKey == graphsyncKey(proc[t].rid, proc[t].p)
           extensions == IF RequestorCancelled(chid) THEN pendingExtensions[chid] ELSE <<>>
           existing == responseProgressMap[chid] IN
        /\ requestorCancelledMap' = requestorCancelledMap \ {chid}
        /\ pendingExtensions' = IF RequestorCancelled(chid)
                                THEN [pendingExtensions EXCEPT ![chid] = <<>>]
                                ELSE pendingExtensions
        /\ graphsyncRequestMap' = [graphsyncRequestMap EXCEPT ![gsKey] = chid]
        /\ channelIDMap' = [channelIDMap EXCEPT ![chid] = gsKey]
        /\ IF existing # 0
           THEN /\ heap' = [heap EXCEPT ![existing] = ResetProgress(@)]
                /\ UNCHANGED responseProgressMap
           ELSE /\ heap' = Append(heap, NewProgress)
                /\ responseProgressMap' = [responseProgressMap EXCEPT
                        ![chid] = Len(heap) + 1]
        /\ out' = Flush(chid, gsKey, extensions)
                  \o <<Call("hook", "ValidateRequest", chid, gsKey, FALSE)>>
        /\ proc' = Settle([proc EXCEPT ![t] =
                [Returned(t, "gsReqRecdHook", chid, "validated")
                    EXCEPT !.key = gsKey, !.err = proc[t].err]], t)
    /\ UNCHANGED <<events, contextCancelMap, pending, closedChans, cancelledCtx,
                   exec, hist, nops>>

\* Transport.processExtension: what it returns (msg, err) and the event it
\* raises, given what the handler returns (resp, herr) when it is asked
\* mutant: the message goes to the handler whatever the side of the channel
processExtensionAnySide(chid, data, p, resp, herr) ==
    LET r == GetTransferData(data)
        msg == r.msg IN
    IF r.err # "nil" THEN [msg |-> NoMsg, err |-> r.err, event |-> "none"]
    ELSE IF msg = NoMsg THEN [msg |-> NoMsg, err |-> "nil", event |-> "none"]
    ELSE IF msg.isRq
    THEN [msg |-> resp, err |-> herr, event |-> "OnRequestReceived"]
    ELSE [msg |-> NoMsg, err |-> herr, event |-> "OnResponseReceived"]

processExtension(chid, data, p, resp, herr) ==
    LET r == GetTransferData(data)
        msg == r.msg IN
    IF r.err # "nil" THEN [msg |-> NoMsg, err |-> r.err, event |-> "none"]
    ELSE IF msg = NoMsg THEN [msg |-> NoMsg, err |-> "nil", event |-> "none"]
    ELSE IF msg.isRq
    THEN IF chid # ChannelID(p, msg.tid)
         THEN [msg |-> NoMsg, err |-> "received request on response channel",
               event |-> "none"]
         ELSE [msg |-> resp, err |-> herr, event |-> "OnRequestReceived"]
    ELSE IF chid # ChannelID(Self, msg.tid)
         THEN [msg |-> NoMsg, err |-> "received response on request channel",
               event |-> "none"]
         ELSE [msg |-> NoMsg, err |-> herr, event |-> "OnResponseReceived"]

\* what gsRequestUpdatedHook and gsIncomingResponseHook call after the lookup:
\* the event of processExtension, then the hook actions; send names the action
\* that carries the response message
ExtensionCalls(chid, gsKey, r, send) ==
    (IF r.event # "none"
     THEN <<[Call("event", r.event, chid, gsKey, FALSE) EXCEPT !.err = r.err]>>
     ELSE <<>>)
    \o (IF r.msg # NoMsg
        THEN <<CallExt("hook", send, chid, gsKey, ToExtensionData(r.msg).Data, FALSE)>>
        ELSE <<>>)
    \o (IF r.err # "nil"
        THEN <<[Call("hook", "TerminateWithError", chid, gsKey, FALSE)
                    EXCEPT !.err = r.err]>>
        ELSE <<>>)

\* the lookup under RLock of gsRequestUpdatedHook and gsIncomingResponseHook
ExtensionHook(t, op, p, rid, gsKey) ==
    /\ HookStart(t)
    /\ nops' = nops - 1
    /\ LET chid == graphsyncRequestMap[gsKey] IN
        proc' = Settle([proc EXCEPT ![t] =
            IF chid = NoChid
            THEN [Returned(t, op, NoChid, "none") EXCEPT !.rid = rid, !.p = p]
            ELSE [Idle EXCEPT !.op = op, !.pc = "process",
                              !.chid = chid, !.rid = rid, !.p = p]], t)
    /\ out' = <<>>
    /\ UNCHANGED <<store, exec, hist>>

\* processExtension and the hook actions of the two hooks
ExtensionHookProcess(t, op, gsKey, data, resp, herr, send) ==
    /\ Running(t, op, "process")
    /\ LET chid == proc[t].chid
           r == processExtension(chid, data, proc[t].p, resp, herr) IN
        /\ out' = ExtensionCalls(chid, gsKey, r, send)
        /\ proc' = Settle([proc EXCEPT ![t] =
                [Returned(t, op, chid, IF r.err # "nil" THEN "terminated" ELSE "none")
                    EXCEPT !.rid = proc[t].rid, !.p = proc[t].p, !.data = data,
                           !.err = r.err]], t)
    /\ UNCHANGED <<store, exec, hist, nops>>

\* Transport.gsRequestUpdatedHook, the lookup under RLock
gsRequestUpdatedHook(t, p, rid) ==
    ExtensionHook(t, "gsRequestUpdatedHook", p, rid, graphsyncKey(rid, p))

\* Transport.gsRequestUpdatedHook, processExtension and the hook actions
gsRequestUpdatedHookProcess(t, update, resp, herr) ==
    ExtensionHookProcess(t, "gsRequestUpdatedHook",
                         graphsyncKey(proc[t].rid, proc[t].p),
                         update, resp, herr, "SendExtensionData")

\* Transport.gsIncomingResponseHook, the lookup under RLock
gsIncomingResponseHook(t, p, rid) ==
    ExtensionHook(t, "gsIncomingResponseHook", p, rid, graphsyncKey(rid, Self))

\* Transport.gsIncomingResponseHook, processExtension and the hook actions
gsIncomingResponseHookProcess(t, response, resp, herr) ==
    ExtensionHookProcess(t, "gsIncomingResponseHook",
                         graphsyncKey(proc[t].rid, Self),
                         response, resp, herr, "UpdateRequestWithExtensions")

\* Transport.gsCompletedResponseListener, the lookup under RLock
gsCompletedResponseListener(t, p, rid, status) ==
    /\ HookStart(t)
    /\ nops' = nops - 1
    /\ LET chid == graphsyncRequestMap[graphsyncKey(rid, p)] IN
        proc' = Settle([proc EXCEPT ![t] =
            IF chid = NoChid
            THEN [Returned(t, "gsCompletedResponseListener", NoChid, "none")
                    EXCEPT !.rid = rid, !.p = p]
            ELSE [Idle EXCEPT !.op = "gsCompletedResponseListener",
                              !.pc = IF status # "RequestCancelled" THEN "call" ELSE "cleanup",
                              !.chid = chid, !.rid = rid, !.p = p, !.status = status]], t)
    /\ out' = <<>>
    /\ UNCHANGED <<store, exec, hist>>

\* Transport.gsCompletedResponseListener, OnChannelCompleted
gsCompletedResponseListenerCall(t) ==
    /\ Running(t, "gsCompletedResponseListener", "call")
    /\ out' = <<[Call("event", "OnChannelCompleted", proc[t].chid,
                      graphsyncKey(proc[t].rid, proc[t].p), FALSE)
                    EXCEPT !.ok = (proc[t].status = "RequestCompletedFull")]>>
    /\ hist' = [hist EXCEPT ![proc[t].chid].completed = TRUE]
    /\ proc' = Settle([proc EXCEPT ![t].pc = "cleanup"], t)
    /\ UNCHANGED <<store, exec, nops>>

\* Transport.gsCompletedResponseListener, the critical section
gsCompletedResponseListenerCleanup(t) ==
    /\ Running(t, "gsCompletedResponseListener", "cleanup")
    /\ cleanupChannel(proc[t].chid, graphsyncKey(proc[t].rid, proc[t].p))
    /\ proc' = Settle([proc EXCEPT ![t] =
            [Returned(t, "gsCompletedResponseListener", proc[t].chid, "none")
                EXCEPT !.key = graphsyncKey(proc[t].rid, proc[t].p),
                       !.status = proc[t].status]], t)
    /\ out' = <<>>
    /\ UNCHANGED <<events, heap, closedChans, cancelledCtx, exec, hist, nops>>

\* Transport.gsRequestorCancelledListener
gsRequestorCancelledListener(t, p, rid) ==
    /\ HookStart(t)
    /\ nops' = nops - 1
    /\ LET chid == graphsyncRequestMap[graphsyncKey(rid, p)] IN
        /\ requestorCancelledMap' =
                IF chid # NoChid THEN requestorCancelledMap \cup {chid}
                ELSE requestorCancelledMap
        /\ hist' = IF chid # NoChid THEN [hist EXCEPT ![chid].cancelled = TRUE] ELSE hist
        /\ proc' = Settle([proc EXCEPT ![t] =
                [Returned(t, "gsRequestorCancelledListener", chid, "none")
                    EXCEPT !.key = graphsyncKey(rid, p), !.rid = rid, !.p = p]], t)
    /\ out' = <<>>
    /\ UNCHANGED <<events, graphsyncRequestMap, channelIDMap, contextCancelMap, pending,
                   pendingExtensions, responseProgressMap, heap, closedChans,
                   cancelledCtx, exec>>

\* ------------------------------------------------------- graphsyncImpl
\* the error graphsyncImpl.gsReqRecdHook hands to TerminateWithError when no
\* channel matches: err of getExtensionData, which is nil at that point
UnmatchedError(err) == err

\* graphsyncImpl.gsReqRecdHook; known says whether
\* impl.channels.GetByIDAndSender(chid, impl.peerID) finds a channel
graphsyncImplGsReqRecdHook(t, p, rid, data, known) ==
    /\ CanStart(t)
    /\ nops' = nops - 1
    /\ LET r == GetTransferData(data)
           transferData == r.msg
           respData == data
           key == graphsyncKey(rid, p)
           rec == [Idle EXCEPT !.op = "graphsyncImpl.gsReqRecdHook", !.pc = "done",
                               !.rid = rid, !.p = p, !.data = data,
                               !.known = known] IN
        IF r.err # "nil"
        THEN /\ out' = <<[Call("hook", "TerminateWithError", NoChid, key, FALSE)
                            EXCEPT !.err = r.err]>>
             /\ proc' = Settle([proc EXCEPT ![t] =
                    [rec EXCEPT !.result = "terminated"]], t)
        ELSE IF transferData = NoMsg
        THEN /\ out' = <<>>
             /\ proc' = Settle([proc EXCEPT ![t] = rec], t)
        ELSE IF ~known
        THEN /\ out' = <<[Call("hook", "TerminateWithError", NoChid, key, FALSE)
                            EXCEPT !.err = UnmatchedError(r.err)]>>
             /\ proc' = Settle([proc EXCEPT ![t] =
                    [rec EXCEPT !.result = "terminated"]], t)
        ELSE /\ out' = <<Call("hook", "ValidateRequest", NoChid, key, FALSE),
                         CallExt("hook", "SendExtensionData", NoChid, key, respData,
                                 FALSE)>>
             /\ proc' = Settle([proc EXCEPT ![t] =
                    [rec EXCEPT !.result = "validated"]], t)
    /\ UNCHANGED <<store, exec, hist>>

\* graphsyncImpl.gsCompletedResponseListener: the event it publishes for a
\* request of a recorded channel, Complete (ok) for RequestCompletedFull and
\* Error for any other status
graphsyncImplGsCompletedResponseListener(t, p, rid, data, known, status) ==
    /\ CanStart(t)
    /\ nops' = nops - 1
    /\ LET r == GetTransferData(data)
           key == graphsyncKey(rid, p)
           rec == [Idle EXCEPT !.op = "graphsyncImpl.gsCompletedResponseListener",
                               !.pc = "done", !.rid = rid, !.p = p, !.data = data,
                               !.known = known, !.status = status] IN
        /\ out' = IF r.err # "nil" \/ r.msg = NoMsg \/ ~known THEN <<>>
                  ELSE <<[Call("pubsub", "Publish", NoChid, key, FALSE)
                            EXCEPT !.ok = (status = "RequestCompletedFull")]>>
        /\ proc' = Settle([proc EXCEPT ![t] = rec], t)
    /\ UNCHANGED <<store, exec, hist>>

Step(T) ==
    \/ \E t \in T : SetEventHandler(t, Manager)
    \/ \E t \in T : SetEventHandlerInstall(t)
    \/ \E t \in T, p \in RemotePeers, c \in Chids, m \in Msgs :
            OpenChannel(t, p, c, m)
    \/ \E i \in OpenIDs, e \in StreamErrors : consumeResponses(i, e)
    \/ \E i \in OpenIDs, e \in LastErrors : executeGsRequest(i, e)
    \/ \E i \in OpenIDs : executeGsRequestCleanup(i)
    \/ \E t \in T, c \in Chids : PauseChannel(t, c)
    \/ \E t \in T, c \in Chids, m \in Msgs \cup {NoMsg} : ResumeChannel(t, m, c)
    \/ \E t \in T, c \in Chids : CloseChannel(t, c)
    \/ \E t \in T : gsKeyFromChannelIDWake(t)
    \/ \E t \in T : ContextDone(t)
    \/ \E t \in T : gsKeyFromChannelIDCtxDone(t)
    \/ \E t \in T : PauseChannelAct(t)
    \/ \E t \in T : ResumeChannelAct(t)
    \/ \E t \in T : CloseChannelAct(t)
    \/ \E t \in T, c \in Chids : CleanupChannel(t, c)
    \/ \E t \in T, p \in RemotePeers, r \in RequestIDs, d \in WireData,
          e \in {"nil", "error"} : gsOutgoingRequestHook(t, p, r, d, e)
    \/ \E t \in T : gsOutgoingRequestHookCommit(t)
    \/ \E t \in T, p \in RemotePeers, r \in RequestIDs : gsIncomingBlockHook(t, p, r)
    \/ \E t \in T, e \in HandlerErrs : gsIncomingBlockHookCall(t, e)
    \/ \E t \in T, p \in RemotePeers, r \in RequestIDs, n \in BlockSizes :
            gsOutgoingBlockHook(t, p, r, n)
    \/ \E t \in T : gsOutgoingBlockHookLoad(t)
    \/ \E t \in T : gsOutgoingBlockHookStore(t)
    \/ \E t \in T, reread \in BOOLEAN : gsOutgoingBlockHookTest(t, reread)
    \/ \E t \in T, reread \in BOOLEAN : gsOutgoingBlockHookMax(t, reread)
    \/ \E t \in T, m \in Responses \cup {NoMsg}, e \in HandlerErrs :
            gsOutgoingBlockHookCall(t, m, e)
    \/ \E t \in T, p \in RemotePeers, r \in RequestIDs, d \in WireData,
          m \in Responses \cup {NoMsg}, e \in HandlerErrs : gsReqRecdHook(t, p, r, d, m, e)
    \/ \E t \in T : gsReqRecdHookCommit(t)
    \/ \E t \in T, p \in RemotePeers, r \in RequestIDs, st \in Statuses :
            gsCompletedResponseListener(t, p, r, st)
    \/ \E t \in T : gsCompletedResponseListenerCall(t)
    \/ \E t \in T : gsCompletedResponseListenerCleanup(t)
    \/ \E t \in T, p \in RemotePeers, r \in RequestIDs :
            gsRequestorCancelledListener(t, p, r)
    \/ \E t \in T, p \in RemotePeers, r \in RequestIDs : gsRequestUpdatedHook(t, p, r)
    \/ \E t \in T, d \in WireData, m \in Responses \cup {NoMsg}, e \in HandlerErrs :
            gsRequestUpdatedHookProcess(t, d, m, e)
    \/ \E t \in T, p \in RemotePeers, r \in RequestIDs : gsIncomingResponseHook(t, p, r)
    \/ \E t \in T, d \in WireData, m \in Responses \cup {NoMsg}, e \in HandlerErrs :
            gsIncomingResponseHookProcess(t, d, m, e)

Next == Step(Threads)

Spec == Init /\ [][Next]_vars

\* PauseChannel on a channel that is still pending, as the test "request
\* pause works even if called when request is still pending" runs it: the
\* requests are left open, the caller's context never ends, one OpenChannel
\* per channel-id, and the handler accepts.  A goroutine that can take a
\* step is eventually scheduled.
InitPend == InitWith(TRUE, MaxPendOps)

NextPend ==
    \/ \E t \in Threads, p \in RemotePeers, c \in Chids, m \in Msgs :
            /\ pending[c] = 0 /\ channelIDMap[c] = NoKey
            /\ OpenChannel(t, p, c, m)
    \/ \E t \in Threads, c \in Chids : PauseChannel(t, c)
    \/ \E t \in Threads : gsKeyFromChannelIDWake(t)
    \/ \E t \in Threads : PauseChannelAct(t)
    \/ \E t \in Threads, p \in RemotePeers, r \in RequestIDs, m \in Msgs :
            gsOutgoingRequestHook(t, p, r, ToNet(m), "nil")
    \/ \E t \in Threads : gsOutgoingRequestHookCommit(t)

SpecPend ==
    /\ InitPend /\ [][NextPend]_vars
    /\ WF_vars(\E t \in Threads : gsKeyFromChannelIDWake(t))
    /\ WF_vars(\E t \in Threads : PauseChannelAct(t))

\* The receiver of the side channel: requests and responses arrive, the
\* manager's handler returns any response and error, and the transport
\* calls the receiver makes run to their end; the outgoing-request hook
\* runs for the requests OpenChannel made, the context of a waiting call
\* may end.
InitRecv == InitWith(TRUE, MaxRecvOps)

NextRecv ==
    \/ \E t \in Threads, p \in RemotePeers, m \in Requests, pull \in BOOLEAN,
          root \in Roots, r \in Responses \cup {NoMsg}, u \in BOOLEAN,
          a \in BOOLEAN, e \in HandlerErrs :
            /\ r = NoMsg => ~u /\ ~a
            /\ receiveRequest(t, p, m, pull, root, r, u, a, e)
    \/ \E t \in Threads : receiveRequestOpenChannel(t)
    \/ \E t \in Threads, e \in SendErrs : receiveRequestSendMessage(t, e)
    \/ \E t \in Threads, p \in RemotePeers, m \in Responses, e \in HandlerErrs :
            receiveResponse(t, p, m, e)
    \/ \E t \in Threads : receiverResumeChannel(t)
    \/ \E t \in Threads : receiverPauseChannel(t)
    \/ \E t \in Threads : receiverCloseChannel(t)
    \/ \E t \in Threads : receiverReturn(t)
    \/ \E t \in Threads : gsKeyFromChannelIDWake(t)
    \/ \E t \in Threads : ContextDone(t)
    \/ \E t \in Threads : gsKeyFromChannelIDCtxDone(t)
    \/ \E t \in Threads : PauseChannelAct(t)
    \/ \E t \in Threads : ResumeChannelAct(t)
    \/ \E t \in Threads : CloseChannelAct(t)
    \/ \E t \in Threads, p \in RemotePeers, r \in RequestIDs, m \in Responses :
            gsOutgoingRequestHook(t, p, r, ToNet(m), "nil")
    \/ \E t \in Threads : gsOutgoingRequestHookCommit(t)

SpecRecv == InitRecv /\ [][NextRecv]_vars

\* Control calls whose context ends while the channel is pending: channels
\* are opened, the outgoing-request hook never runs, and the caller's context
\* may end at any moment of the wait.  A goroutine whose select has a ready
\* case is eventually scheduled.
InitCtx == InitWith(TRUE, MaxCtxOps)

NextCtx ==
    \/ \E t \in Threads, p \in RemotePeers, c \in Chids, m \in Msgs :
            OpenChannel(t, p, c, m)
    \/ \E t \in Threads, c \in Chids : PauseChannel(t, c)
    \/ \E t \in Threads, c \in Chids, m \in Msgs : ResumeChannel(t, m, c)
    \/ \E t \in Threads, c \in Chids : CloseChannel(t, c)
    \/ \E t \in Threads : ContextDone(t)
    \/ \E t \in Threads : gsKeyFromChannelIDCtxDone(t)

SpecCtx ==
    /\ InitCtx /\ [][NextCtx]_vars
    /\ \A t \in Threads : WF_vars(gsKeyFromChannelIDCtxDone(t))

\* The installation of the handler: callers give different handlers to
\* SetEventHandler, before, between and after them channels are opened and
\* control calls are made; no hook runs, a waiting control call ends with
\* its context.
InitHandler == InitWith(FALSE, MaxHandlerOps)

NextHandler ==
    \/ \E t \in Threads, h \in Handlers : SetEventHandler(t, h)
    \/ \E t \in Threads : SetEventHandlerInstall(t)
    \/ \E t \in Threads, p \in RemotePeers, c \in Chids, m \in Msgs :
            OpenChannel(t, p, c, m)
    \/ \E t \in Threads, c \in Chids : PauseChannel(t, c)
    \/ \E t \in Threads, c \in Chids, m \in Msgs : ResumeChannel(t, m, c)
    \/ \E t \in Threads, c \in Chids : CloseChannel(t, c)
    \/ \E t \in Threads : ContextDone(t)
    \/ \E t \in Threads : gsKeyFromChannelIDCtxDone(t)

SpecHandler == InitHandler /\ [][NextHandler]_vars

\* The handler does not recognise the channel, as in the test "gs request
\* unrecognized opened channel will not record incoming blocks":
\* OnChannelOpened returns an error to every outgoing-request hook.  Each
\* channel is opened once; control calls may be waiting when the hook runs.
InitReject == InitWith(TRUE, MaxRejectOps)

NextReject ==
    \/ \E t \in Threads, p \in RemotePeers, c \in Chids, m \in Msgs :
            /\ contextCancelMap[c] = 0
            /\ OpenChannel(t, p, c, m)
    \/ \E t \in Threads, c \in Chids : PauseChannel(t, c)
    \/ \E t \in Threads, c \in Chids, m \in Msgs : ResumeChannel(t, m, c)
    \/ \E t \in Threads, c \in Chids : CloseChannel(t, c)
    \/ \E t \in Threads : gsKeyFromChannelIDWake(t)
    \/ \E t \in Threads, p \in RemotePeers, r \in RequestIDs, m \in Msgs :
            gsOutgoingRequestHook(t, p, r, ToNet(m), "error")
    \/ \E t \in Threads : gsOutgoingRequestHookCommit(t)
    \/ \E t \in Threads, p \in RemotePeers, r \in RequestIDs :
            gsIncomingBlockHook(t, p, r)

SpecReject == InitReject /\ [][NextReject]_vars

\* The responder side of a transfer as graphsync drives it for one response
\* at a time: incoming requests (a restart is a further incoming request for
\* the same channel) and the outgoing blocks of the response, each hook run
\* to its end before the next.
InitBlocks == InitWith(TRUE, MaxBlockOps)

NextBlocks ==
    \/ \E p \in RemotePeers, r \in RequestIDs, m \in Msgs :
            gsReqRecdHook(1, p, r, ToNet(m), NoMsg, "nil")
    \/ gsReqRecdHookCommit(1)
    \/ \E p \in RemotePeers, r \in RequestIDs, size \in BlockSizes :
            gsOutgoingBlockHook(1, p, r, size)
    \/ gsOutgoingBlockHookLoad(1)
    \/ gsOutgoingBlockHookStore(1)
    \/ \E reread \in BOOLEAN : gsOutgoingBlockHookTest(1, reread)
    \/ \E reread \in BOOLEAN : gsOutgoingBlockHookMax(1, reread)
    \/ \E err \in HandlerErrs : gsOutgoingBlockHookCall(1, NoMsg, err)

SpecBlocks == InitBlocks /\ [][NextBlocks]_vars

\* The responder side: incoming requests for a channel (a restart brings a
\* further request ID for the same channel), the requestor's cancel, the end
\* of the response, and the client's control calls, on two threads.
InitResp == InitWith(TRUE, MaxRespOps)

NextResp ==
    \/ \E t \in Threads, p \in RemotePeers, r \in RequestIDs, m \in Msgs,
          e \in {"nil", "error"} : gsReqRecdHook(t, p, r, ToNet(m), NoMsg, e)
    \/ \E t \in Threads : gsReqRecdHookCommit(t)
    \/ \E t \in Threads, p \in RemotePeers, r \in RequestIDs :
            gsRequestorCancelledListener(t, p, r)
    \/ \E t \in Threads, p \in RemotePeers, r \in RequestIDs, st \in Statuses :
            gsCompletedResponseListener(t, p, r, st)
    \/ \E t \in Threads : gsCompletedResponseListenerCall(t)
    \/ \E t \in Threads : gsCompletedResponseListenerCleanup(t)
    \/ \E t \in Threads, c \in Chids : PauseChannel(t, c)
    \/ \E t \in Threads, c \in Chids, m \in Msgs \cup {NoMsg} : ResumeChannel(t, m, c)
    \/ \E t \in Threads, c \in Chids : CloseChannel(t, c)
    \/ \E t \in Threads : PauseChannelAct(t)
    \/ \E t \in Threads : ResumeChannelAct(t)
    \/ \E t \in Threads : CloseChannelAct(t)

SpecResp == InitResp /\ [][NextResp]_vars

\* The cancelled window of one responder-side channel, the calls made one
\* after the other: incoming requests, the requestor's cancel, ResumeChannel.
InitQueue == InitWith(TRUE, MaxQueueOps)

NextQueue ==
    \/ \E p \in RemotePeers, r \in RequestIDs, m \in Msgs, e \in {"nil", "error"} :
            gsReqRecdHook(1, p, r, ToNet(m), NoMsg, e)
    \/ gsReqRecdHookCommit(1)
    \/ \E p \in RemotePeers, r \in RequestIDs : gsRequestorCancelledListener(1, p, r)
    \/ \E c \in Chids, m \in Msgs \cup {NoMsg} : ResumeChannel(1, m, c)
    \/ ResumeChannelAct(1)

SpecQueue == InitQueue /\ [][NextQueue]_vars

\* The hooks of one responder-side transfer on two goroutines: incoming
\* requests (a restart is a further request for the same channel) and the
\* outgoing blocks of the responses, interleaved at every point where
\* dataLock is not held.
InitRace == InitWith(TRUE, MaxRaceOps)

NextRace ==
    \/ \E t \in Threads, p \in RemotePeers, r \in RequestIDs, m \in Msgs :
            gsReqRecdHook(t, p, r, ToNet(m), NoMsg, "nil")
    \/ \E t \in Threads : gsReqRecdHookCommit(t)
    \/ \E t \in Threads, p \in RemotePeers, r \in RequestIDs, size \in BlockSizes :
            gsOutgoingBlockHook(t, p, r, size)
    \/ \E t \in Threads : gsOutgoingBlockHookLoad(t)
    \/ \E t \in Threads : gsOutgoingBlockHookStore(t)
    \/ \E t \in Threads, reread \in BOOLEAN : gsOutgoingBlockHookTest(t, reread)
    \/ \E t \in Threads, reread \in BOOLEAN : gsOutgoingBlockHookMax(t, reread)
    \/ \E t \in Threads, err \in HandlerErrs : gsOutgoingBlockHookCall(t, NoMsg, err)

SpecRace == InitRace /\ [][NextRace]_vars

\* Control calls on channels that are still pending, with callers whose
\* context never ends: the channels are opened, opened again, cleaned up,
\* their error streams end, or the outgoing-request hook binds them.  Every
\* goroutine that can take a step is eventually scheduled.
InitRelease == InitWith(TRUE, MaxReleaseOps)

NextRelease ==
    \/ \E t \in Threads, p \in RemotePeers, c \in Chids, m \in Msgs :
            OpenChannel(t, p, c, m)
    \/ \E i \in OpenIDs, e \in StreamErrors : consumeResponses(i, e)
    \/ \E i \in OpenIDs, e \in LastErrors : executeGsRequest(i, e)
    \/ \E i \in OpenIDs : executeGsRequestCleanup(i)
    \/ \E t \in Threads, c \in Chids : PauseChannel(t, c)
    \/ \E t \in Threads : gsKeyFromChannelIDWake(t)
    \/ \E t \in Threads : PauseChannelAct(t)
    \/ \E t \in Threads, c \in Chids : CleanupChannel(t, c)
    \/ \E t \in Threads, p \in RemotePeers, r \in RequestIDs, m \in Msgs :
            gsOutgoingRequestHook(t, p, r, ToNet(m), "nil")
    \/ \E t \in Threads : gsOutgoingRequestHookCommit(t)

SpecRelease ==
    /\ InitRelease /\ [][NextRelease]_vars
    /\ WF_vars(\E t \in Threads : gsKeyFromChannelIDWake(t))
    /\ WF_vars(\E t \in Threads : PauseChannelAct(t))
    /\ WF_vars(\E t \in Threads : gsOutgoingRequestHookCommit(t))
    /\ WF_vars(\E i \in OpenIDs : executeGsRequestCleanup(i))

\* The graphsync callbacks of graphsyncImpl, for requests with and without
\* a data-transfer extension and with and without a recorded channel.
InitImpl == InitWith(TRUE, MaxImplOps)

NextImpl ==
    \/ \E t \in Threads, p \in RemotePeers, r \in RequestIDs, d \in WireData,
          known \in BOOLEAN : graphsyncImplGsReqRecdHook(t, p, r, d, known)
    \/ \E t \in Threads, p \in RemotePeers, r \in RequestIDs, d \in WireData,
          known \in BOOLEAN, st \in Statuses :
            graphsyncImplGsCompletedResponseListener(t, p, r, d, known, st)

SpecImpl == InitImpl /\ [][NextImpl]_vars

\* ---------------------------------------------------------------- claims
\* C1: in every state in which no operation holds dataLock, the forward map
\* and the reverse map agree: graphsyncRequestMap[key] = chid exactly when
\* channelIDMap[chid] = key.
C1_MapsConsistent ==
    \A k \in Keys, c \in Chids :
        (graphsyncRequestMap[k] = c) <=> (channelIDMap[c] = k)

\* a channel-id is live when the store holds any entry for it
Live(c) ==
    \/ pending[c] # 0
    \/ channelIDMap[c] # NoKey
    \/ contextCancelMap[c] # 0
    \/ responseProgressMap[c] # 0
    \/ c \in requestorCancelledMap
    \/ pendingExtensions[c] # <<>>

HasPending(c) == pending[c] # 0 /\ pending[c] \notin closedChans

\* C2: every live channel-id has exactly one of an un-closed
\* pending-signal and a reverse-map entry.
C2_ExactlyOne ==
    \A c \in Chids : Live(c) => (HasPending(c) <=> channelIDMap[c] = NoKey)

\* C2, the part that holds: a pending-signal held in the store is never a closed one,
\* and the critical section of the outgoing-request hook leaves the channel
\* without pending-signal and, when the handler accepted, with the reverse
\* entry of the hook's request.
C2_PendingUnclosedUntilBound ==
    [][ /\ \A c \in Chids : pending'[c] # 0 => pending'[c] \notin closedChans'
        /\ \A t \in Threads :
              Running(t, "gsOutgoingRequestHook", "commit") /\ proc'[t].pc = "done"
              => /\ pending'[proc[t].chid] = 0
                 /\ pending[proc[t].chid] # 0 => pending[proc[t].chid] \in closedChans'
                 /\ proc[t].err = "nil" =>
                        channelIDMap'[proc[t].chid] = graphsyncKey(proc[t].rid, Self)
      ]_vars

\* C2 witness: the hook has just bound a channel that OpenChannel left pending
C2_Witness ==
    \E t \in Threads :
        /\ proc[t].op = "gsOutgoingRequestHook" /\ proc[t].pc = "done"
        /\ proc[t].err = "nil"
        /\ proc[t].chid \in Chids
        /\ channelIDMap[proc[t].chid] = proc[t].key
        /\ contextCancelMap[proc[t].chid] \in closedChans

PauseReturned(t, c) ==
    /\ proc[t].op = "PauseChannel" /\ proc[t].pc = "done" /\ proc[t].chid = c
    /\ proc[t].result = "nil"
    /\ proc[t].key.p = Self /\ proc[t].key.requestID \in RequestIDs
    /\ out = <<Call("gs", "PauseRequest", c, proc[t].key, FALSE)>>

ControlOps == {"PauseChannel", "ResumeChannel", "CloseChannel"}

\* C4: when OnChannelOpened returns an error the hook binds nothing, closes
\* and removes the pending-signal, the control calls that waited on it return
\* ChannelNotFound, and incoming blocks of the request raise no
\* OnDataReceived.
C4_RejectedOpen ==
    /\ [](\A k \in Keys, c \in Chids :
            graphsyncRequestMap[k] = NoChid /\ channelIDMap[c] = NoKey)
    /\ [][\A t \in Threads :
            /\ Running(t, "gsOutgoingRequestHook", "commit") /\ proc'[t].pc = "done"
               => /\ pending'[proc[t].chid] = 0
                  /\ pending[proc[t].chid] # 0 => pending[proc[t].chid] \in closedChans'
            /\ proc[t].pc = "wait" /\ proc'[t] # proc[t]
               => /\ proc[t].ch \in closedChans
                  /\ proc'[t] = [Returned(t, proc[t].op, proc[t].chid, "ErrChannelNotFound")
                                    EXCEPT !.waited = TRUE]
            /\ proc'[t].op = "gsIncomingBlockHook" /\ proc'[t] # proc[t]
               => proc'[t].pc = "done" /\ out' = <<>>
         ]_vars
    /\ [](\A n \in 1..Len(out) : out[n].name # "OnDataReceived")

\* C4 witness: after a rejected hook a control call that waited has returned
\* ChannelNotFound
C4_Witness ==
    \E t \in Threads :
        /\ proc[t].op \in ControlOps /\ proc[t].pc = "done" /\ proc[t].waited
        /\ proc[t].result = "ErrChannelNotFound"
        /\ hist[proc[t].chid].opened
        /\ pending[proc[t].chid] = 0 /\ proc[t].chid \in Chids
        /\ contextCancelMap[proc[t].chid] # 0

InBlockHook(c) ==
    \E t \in Threads :
        proc[t].op = "gsOutgoingBlockHook" /\ proc[t].pc # "done" /\ proc[t].chid = c

\* C5: however often the outgoing-block hook runs for the block of
\* size 100, OnDataSent is raised once
C5_OnceForBlock == \A c \in Chids : hist[c].sent <= 1

\* C5, in terms of the watermarks: OnDataSent is raised once for every block-size step of the maximumSent
\* watermark, so blocks sent again after an incoming request restarted the
\* response (currentSent back at 0) raise nothing until currentSent passes
\* maximumSent.
C5_OncePerExtent ==
    \A c \in Chids :
        responseProgressMap[c] # 0 /\ ~InBlockHook(c)
        => LET rp == heap[responseProgressMap[c]] IN
            /\ rp.currentSent <= rp.maximumSent
            /\ hist[c].sent < MaxCount
               => \A size \in BlockSizes : rp.maximumSent = size * hist[c].sent

\* C5 witness: a block sent again after a restart raised no OnDataSent
C5_Witness ==
    \E t \in Threads :
        /\ proc[t].op = "gsOutgoingBlockHook" /\ proc[t].pc = "done"
        /\ proc[t].chid \in Chids /\ proc[t].result = "none"
        /\ out = <<>>
        /\ hist[proc[t].chid].sent >= 1
        /\ responseProgressMap[proc[t].chid] # 0
        /\ heap[responseProgressMap[proc[t].chid]].currentSent > 0

\* the last step raised the event name for channel c
Raised(name, c) ==
    \E n \in 1..Len(out) :
        out[n].kind = "event" /\ out[n].name = name /\ out[n].chid = c

\* OnChannelCompleted raised by executeGsRequest, the consumer of the error
\* stream of a request made by OpenChannel
RaisedByConsumer(c) ==
    \E n \in 1..Len(out) :
        /\ out[n].kind = "event" /\ out[n].name = "OnChannelCompleted"
        /\ out[n].chid = c /\ out[n].key = NoKey

\* C6: for every channel-id OnChannelOpened is raised at most once and
\* OnChannelCompleted at most once, and neither OnDataReceived nor the
\* OnChannelCompleted of a locally requested channel comes before its
\* OnChannelOpened.
C6_OnceAndInOrder ==
    [][\A c \in Chids :
        /\ hist[c].opened => ~Raised("OnChannelOpened", c)'
        /\ hist[c].completed => ~Raised("OnChannelCompleted", c)'
        /\ ~hist[c].opened => ~Raised("OnDataReceived", c)' /\ ~RaisedByConsumer(c)'
      ]_vars

HookEvents == {"OnDataReceived", "OnDataSent", "OnRequestReceived", "OnResponseReceived"}

\* C7: once OnChannelCompleted was raised for a channel no hook raises a
\* further event for it.
C7_NoEventAfterCompleted ==
    [][\A c \in Chids :
        hist[c].completed
        => /\ \A name \in HookEvents : ~Raised(name, c)'
           /\ Raised("OnChannelCompleted", c)' => RaisedByConsumer(c)'
      ]_vars

ResponseCalls == {"PauseResponse", "UnpauseResponse", "CancelResponse"}

\* the last step called the block transport's response control for channel c
ResponseCalled(c) ==
    \E n \in 1..Len(out) :
        out[n].kind = "gs" /\ out[n].name \in ResponseCalls /\ out[n].chid = c

\* C8: once RequestorCancelledListener fired for a channel no PauseResponse,
\* UnpauseResponse or CancelResponse is issued for it.
C8_NeverAfterCancel ==
    [][\A c \in Chids : hist[c].cancelled => ~ResponseCalled(c)']_vars

\* C8, for the time the flag stands: no PauseResponse, UnpauseResponse or
\* CancelResponse is issued for a channel whose requestor-cancelled flag is
\* set, whatever runs beside the control call.
C8_NotWhileCancelled ==
    [][\A c \in Chids : c \in requestorCancelledMap => ~ResponseCalled(c)']_vars

\* C8 witness: a control call on a cancelled responder-side channel has
\* returned success without a call
C8_Witness ==
    \E t \in Threads :
        /\ proc[t].op \in {"PauseChannel", "ResumeChannel"} /\ proc[t].pc = "done"
        /\ proc[t].result = "nil" /\ proc[t].key.p \in RemotePeers
        /\ proc[t].chid \in requestorCancelledMap
        /\ out = <<>>

\* the step is the last one of CloseChannel by t, on the responder side, with
\* the flag set
ClosesCancelled(t) ==
    /\ Running(t, "CloseChannel", "act") /\ proc'[t].pc = "done"
    /\ ~IsRequester(proc[t].key)
    /\ proc[t].chid \in requestorCancelledMap

\* C9: CloseChannel on a responder-side channel whose flag is set returns
\* success and leaves no entry for the channel: no forward or reverse
\* binding, no progress record, no queued extensions, no flag, so the next
\* control call finds no channel.
C9_CloseDropsAll ==
    [][\A t \in Threads :
        ClosesCancelled(t)
        => LET c == proc[t].chid IN
            /\ proc'[t].result = "nil" /\ out' = <<>>
            /\ \A k \in Keys : graphsyncRequestMap'[k] # c
            /\ channelIDMap'[c] = NoKey /\ pending'[c] = 0
            /\ responseProgressMap'[c] = 0
            /\ pendingExtensions'[c] = <<>>
            /\ c \notin requestorCancelledMap'
      ]_vars

\* the extensions handed to SendExtensionData by a step, in the order sent
ExtensionsSent(calls) ==
    LET sent == SelectSeq(calls, LAMBDA x : x.name = "SendExtensionData") IN
    [n \in 1..Len(sent) |-> sent[n].ext]

Started(t, op) ==
    /\ Free(t) /\ nops' = nops - 1
    /\ proc'[t].op = op /\ proc'[t].pc # "idle"

\* the step leaves the store and the record of raised events as they were
NoEffect == out' = <<>> /\ store' = store /\ hist' = hist

\* C11: an incoming request whose extension does not parse makes the hook
\* terminate the request with the decode error and nothing else: no event, no
\* binding, no progress record, no ValidateRequest.
C11_MalformedRequest ==
    [][\A t \in Threads :
        Started(t, "gsReqRecdHook") /\ proc'[t].data = Malformed
        => /\ proc'[t].pc = "done"
           /\ Len(out') = 1
           /\ out'[1].kind = "hook" /\ out'[1].name = "TerminateWithError"
           /\ out'[1].err = "decode"
           /\ store' = store /\ hist' = hist
      ]_vars

\* C11 witness: the hook has returned from a request with a malformed
\* extension
C11_Witness ==
    \E t \in Threads :
        /\ proc[t].op = "gsReqRecdHook" /\ proc[t].pc = "done"
        /\ proc[t].data = Malformed /\ proc[t].result = "terminated"
        /\ Len(out) = 1 /\ out[1].err = "decode"

\* the hooks that start with a lookup in graphsyncRequestMap, and their key
LookupHooks ==
    {"gsIncomingBlockHook", "gsOutgoingBlockHook", "gsRequestUpdatedHook",
     "gsIncomingResponseHook", "gsCompletedResponseListener",
     "gsRequestorCancelledListener"}

HookKey(op, rid, p) ==
    IF op \in {"gsIncomingBlockHook", "gsIncomingResponseHook"}
    THEN graphsyncKey(rid, Self) ELSE graphsyncKey(rid, p)

\* C12: a request, response or update without the extension is ignored by
\* the hook that gets it (no call, no change of the store), and the block,
\* update, response and completion hooks of a request ID that has no binding
\* do nothing either.
C12_NoExtensionIgnored ==
    [][\A t \in Threads :
        /\ (Started(t, "gsOutgoingRequestHook") \/ Started(t, "gsReqRecdHook"))
                /\ proc'[t].data = Absent
           => proc'[t].pc = "done" /\ NoEffect
        /\ proc[t].pc = "process" /\ proc'[t].pc = "done" /\ proc'[t].data = Absent
           => NoEffect
        /\ \A op \in LookupHooks :
              Started(t, op)
                /\ graphsyncRequestMap[HookKey(op, proc'[t].rid, proc'[t].p)] = NoChid
              => proc'[t].pc = "done" /\ NoEffect
      ]_vars

\* C12 witness: a hook has returned from a request without the extension
C12_Witness ==
    \E t \in Threads :
        /\ proc[t].op \in {"gsOutgoingRequestHook", "gsReqRecdHook"}
        /\ proc[t].pc = "done" /\ proc[t].data = Absent
        /\ proc[t].rid \in RequestIDs /\ proc[t].result = "none"
        /\ HandlerSet(events) /\ out = <<>>

\* C13: no Event Interface callback and no block-transport call is made by
\* a step that holds dataLock.
C13_NoCallUnderLock ==
    \A n \in 1..Len(out) :
        out[n].kind \in {"event", "gs"} \/ out[n].name = "SendExtensionData"
        => ~out[n].locked

\* the step is the return of consumeResponses in goroutine i
ConsumerReturns(i) == exec[i].pc = "consume" /\ exec'[i].pc = "cleanup"

\* C14: OnChannelCompleted is raised for an opened channel exactly when the
\* error stream of its request closes.
C14_OnlyOnStreamClose ==
    [][\A i \in OpenIDs :
        ConsumerReturns(i) /\ Raised("OnChannelCompleted", exec[i].chid)'
        => exec'[i].lastError # "errContextCancelled"
      ]_vars

\* C14, with the context: when the stream closes OnChannelCompleted is
\* raised with success exactly if no error was seen, and not raised when the
\* last error is the request-cancelled error; when the context of OpenChannel
\* ends first it is raised with success false.
C14_Completion ==
    [][\A i \in OpenIDs :
        /\ exec[i].pc = "consume" /\ exec'[i].pc = "consume"
                /\ exec[i].lastError # "nil"
           => exec'[i].lastError # "nil"
        /\ ConsumerReturns(i)
           => LET lastError == exec'[i].lastError IN
              /\ lastError \in {exec[i].lastError, "errContextCancelled"}
              /\ IF lastError = "RequestCancelledErr"
                 THEN out' = <<>> /\ hist' = hist
                 ELSE out' = <<[Call("event", "OnChannelCompleted", exec[i].chid,
                                     NoKey, FALSE) EXCEPT !.ok = (lastError = "nil")]>>
      ]_vars

\* C14 witness: the stream of a request that CloseChannel cancelled has
\* closed with the request-cancelled error and nothing was raised
C14_Witness ==
    \E i \in OpenIDs :
        /\ exec[i].pc = "cleanup" /\ exec[i].lastError = "RequestCancelledErr"
        /\ i \in cancelledCtx
        /\ out = <<>> /\ ~hist[exec[i].chid].completed

\* C15: when the error-stream consumer of an opened channel has finished, no
\* store map holds an entry for the channel.
C15_ConsumerDropsAll ==
    [][\A i \in OpenIDs :
        exec[i].pc = "cleanup" /\ exec'[i].pc = "done"
        => /\ channelIDMap'[exec[i].chid] = NoKey
           /\ \A k \in Keys : graphsyncRequestMap'[k] # exec[i].chid
           /\ pending'[exec[i].chid] = 0
           /\ contextCancelMap'[exec[i].chid] = 0
           /\ responseProgressMap'[exec[i].chid] = 0
           /\ pendingExtensions'[exec[i].chid] = <<>>
           /\ exec[i].chid \notin requestorCancelledMap'
      ]_vars

\* C16: a control call for a channel-id that has neither a binding nor a
\* pending-signal returns ChannelNotFound at once, calls nothing and leaves
\* the store as it was (the handler being set).
C16_UnknownChannel ==
    [][\A t \in Threads, op \in ControlOps :
        /\ Started(t, op) /\ HandlerSet(events)
        /\ channelIDMap[proc'[t].chid] = NoKey /\ pending[proc'[t].chid] = 0
        => /\ proc'[t].pc = "done" /\ proc'[t].result = "ErrChannelNotFound"
           /\ NoEffect
      ]_vars

\* C16 witness: a control call has returned ChannelNotFound without having
\* waited
C16_Witness ==
    \E t \in Threads :
        /\ proc[t].op \in ControlOps /\ proc[t].pc = "done"
        /\ proc[t].result = "ErrChannelNotFound" /\ ~proc[t].waited
        /\ HandlerSet(events) /\ out = <<>>
        /\ channelIDMap[proc[t].chid] = NoKey /\ pending[proc[t].chid] = 0

\* a control call of thread t waits for the pending-signal of its channel
Waiting(t) == proc[t].op \in ControlOps /\ proc[t].pc = "wait"

\* C17: a control call that waits on the pending-signal of its channel and
\* whose context has ended returns ChannelNotFound, without a call to the
\* block transport and without a change of the store, although the
\* outgoing-request hook never runs; it leaves the wait in no other way.
C17_ContextEndsWait ==
    /\ [][\A t \in Threads :
            Waiting(t) /\ proc'[t] # proc[t] /\ proc'[t].pc # "wait"
            => /\ proc[t].ctxDone
               /\ proc'[t].pc = "done" /\ proc'[t].op = proc[t].op
               /\ proc'[t].chid = proc[t].chid
               /\ proc'[t].result = "ErrChannelNotFound"
               /\ NoEffect
        ]_vars
    /\ \A t \in Threads :
        (Waiting(t) /\ proc[t].ctxDone)
            ~> (proc[t].pc = "done" /\ proc[t].result = "ErrChannelNotFound"
                /\ proc[t].ctxDone /\ out = <<>>)

\* C17 witness: a control call has returned ChannelNotFound because its
\* context ended while the channel was still pending
C17_Witness ==
    \E t \in Threads :
        /\ proc[t].op \in ControlOps /\ proc[t].pc = "done"
        /\ proc[t].result = "ErrChannelNotFound"
        /\ proc[t].waited /\ proc[t].ctxDone
        /\ pending[proc[t].chid] # 0 /\ channelIDMap[proc[t].chid] = NoKey
        /\ out = <<>>

\* thread t takes the step of a control call that acts on the key it found,
\* the channel being bound to that key and not flagged requestor-cancelled
ActsOnBound(t) ==
    /\ proc[t].op \in ControlOps /\ proc[t].pc = "act" /\ proc'[t].pc = "done"
    /\ channelIDMap[proc[t].chid] = proc[t].key
    /\ proc[t].chid \notin requestorCancelledMap

\* the step calls the block transport once: name on the bound key, with the
\* extension of msg when msg is present
OneGsCall(t, name, msg) ==
    /\ Len(out') = 1
    /\ out'[1].kind = "gs" /\ out'[1].name = name
    /\ out'[1].key = proc[t].key /\ out'[1].chid = proc[t].chid
    /\ IF msg = NoMsg THEN out'[1].ext = Absent
       ELSE GetTransferData(out'[1].ext).msg = msg

\* the step invokes the cancel handle stored for the channel and calls
\* nothing else
OnlyCancels(t) ==
    /\ Len(out') = 1
    /\ out'[1].kind = "ctx" /\ out'[1].name = "cancel"
    /\ out'[1].chid = proc[t].chid
    /\ contextCancelMap[proc[t].chid] \in cancelledCtx'

\* the action of a control call on the responder side of a binding, and of
\* Pause and Resume on the requester side
SideAction(t) ==
    IF proc[t].key.p = Self
    THEN CASE proc[t].op = "PauseChannel" -> OneGsCall(t, "PauseRequest", NoMsg)
           [] proc[t].op = "ResumeChannel" ->
                OneGsCall(t, "UnpauseRequest", proc[t].msg)
           [] OTHER -> TRUE
    ELSE CASE proc[t].op = "PauseChannel" -> OneGsCall(t, "PauseResponse", NoMsg)
           [] proc[t].op = "ResumeChannel" ->
                OneGsCall(t, "UnpauseResponse", proc[t].msg)
           [] OTHER -> OneGsCall(t, "CancelResponse", NoMsg)

RequesterClose(t) == proc[t].op = "CloseChannel" /\ proc[t].key.p = Self

C19_CleanupDropsAll ==
    [][\A t \in Threads :
        Started(t, "CleanupChannel")
        => /\ proc'[t].pc = "done"
           /\ channelIDMap'[proc'[t].chid] = NoKey
           /\ \A k \in Keys : graphsyncRequestMap'[k] # proc'[t].chid
           /\ pending'[proc'[t].chid] = 0
           /\ contextCancelMap'[proc'[t].chid] = 0
           /\ responseProgressMap'[proc'[t].chid] = 0
           /\ pendingExtensions'[proc'[t].chid] = <<>>
           /\ proc'[t].chid \notin requestorCancelledMap'
      ]_vars

\* the operations that test the handler before anything else
HandlerOps == ControlOps \cup {"OpenChannel"}

\* C20: SetEventHandler is single-assignment.  A call made while no handler
\* is set installs its handler and registers the hooks; a call made once a
\* handler is set returns HandlerAlreadySet, keeps the handler and registers
\* nothing; OpenChannel, PauseChannel, ResumeChannel and CloseChannel made
\* while no handler is set return HandlerNotSet and leave the store alone.
C20_SingleAssignment ==
    [][\A t \in Threads :
        /\ Started(t, "SetEventHandler") /\ events = NoHandler
           => proc'[t].pc = "install" /\ NoEffect
        /\ Running(t, "SetEventHandler", "install") /\ proc'[t] # proc[t]
           /\ events = NoHandler
           => /\ proc'[t].pc = "done" /\ proc'[t].result = "nil"
              /\ events' = proc[t].h
              /\ Len(out') = 1 /\ out'[1].name = "RegisterHooks"
        /\ Started(t, "SetEventHandler") /\ events # NoHandler
           => /\ proc'[t].pc = "done"
              /\ proc'[t].result = "ErrHandlerAlreadySet"
              /\ NoEffect
        /\ \A op \in HandlerOps :
             Started(t, op) /\ events = NoHandler
             => /\ proc'[t].pc = "done"
                /\ proc'[t].result = "ErrHandlerNotSet"
                /\ NoEffect /\ exec' = exec
      ]_vars

\* C20 witness: a second SetEventHandler, given another handler, has
\* returned HandlerAlreadySet and the first handler is still installed
C20_Witness ==
    \E t \in Threads :
        /\ proc[t].op = "SetEventHandler" /\ proc[t].pc = "done"
        /\ proc[t].result = "ErrHandlerAlreadySet"
        /\ events # NoHandler /\ proc[t].h # events
        /\ out = <<>>

\* the channel-id triple the specification names
Triple(initiator, responder, id) ==
    [Initiator |-> initiator, ID |-> id, Responder |-> responder]

\* the events among the calls of a step
Events(calls) == {n \in 1..Len(calls) : calls[n].kind = "event"}

\* the calls of a step raise the event name once, for channel-id c, and no
\* other event
RaisedOnly(calls, name, c) ==
    /\ Cardinality(Events(calls)) = 1
    /\ \A n \in Events(calls) : calls[n].name = name /\ calls[n].chid = c

\* C21: gsOutgoingRequestHook(p, request) for a request with a data-transfer
\* extension raises OnChannelOpened with (Initiator=self, Responder=p,
\* ID=TransferID) for a request message and (Initiator=p, Responder=self,
\* ID=TransferID) for a response message; gsIncomingBlockHook for a request
\* ID the hook bound raises OnDataReceived with the bound channel-id.
C21_OpenedChannelID ==
    [][\A t \in Threads :
        /\ Started(t, "gsOutgoingRequestHook")
           /\ GetTransferData(proc'[t].data).msg # NoMsg
           => LET message == GetTransferData(proc'[t].data).msg IN
              RaisedOnly(out', "OnChannelOpened",
                    IF message.isRq
                    THEN Triple(Self, proc'[t].p, message.tid)
                    ELSE Triple(proc'[t].p, Self, message.tid))
        /\ Running(t, "gsIncomingBlockHook", "call") /\ proc'[t].pc = "done"
           => RaisedOnly(out', "OnDataReceived", proc[t].chid)
        /\ Started(t, "gsIncomingBlockHook")
           /\ graphsyncRequestMap[graphsyncKey(proc'[t].rid, Self)] # NoChid
           => /\ proc'[t].pc = "call"
              /\ proc'[t].chid = graphsyncRequestMap[graphsyncKey(proc'[t].rid, Self)]
      ]_vars

\* the calls of a step send msg, encoded, as extension data once when msg is
\* present, and send no extension data when it is not
SendsExtension(calls, msg) ==
    LET sent == {n \in 1..Len(calls) : calls[n].name = "SendExtensionData"} IN
    IF msg = NoMsg THEN sent = {}
    ELSE /\ Cardinality(sent) = 1
         /\ \A n \in sent : GetTransferData(calls[n].ext).msg = msg

\* the calls of a step hold the hook action name
HookAction(calls, name) ==
    \E n \in 1..Len(calls) : calls[n].kind = "hook" /\ calls[n].name = name

\* thread t starts gsReqRecdHook with a well-formed data-transfer extension
WellFormedRequest(t) ==
    /\ Started(t, "gsReqRecdHook")
    /\ GetTransferData(proc'[t].data).err = "nil"
    /\ GetTransferData(proc'[t].data).msg # NoMsg

\* C22: gsReqRecdHook(p, request) with a well-formed extension raises one
\* event, OnRequestReceived with (Initiator=p, Responder=self, ID=TransferID)
\* for a request message and OnResponseReceived with (Initiator=self,
\* Responder=p, ID=TransferID) for a response message; when the handler
\* returns no error the hook sends the returned response as extension
\* data, binds (requestID, p) to the channel-id and validates the request.
C22_RequestReceived ==
    [][\A t \in Threads :
        /\ WellFormedRequest(t)
           => LET message == GetTransferData(proc'[t].data).msg IN
              /\ IF message.isRq
                 THEN RaisedOnly(out', "OnRequestReceived",
                                 Triple(proc'[t].p, Self, message.tid))
                 ELSE RaisedOnly(out', "OnResponseReceived",
                                 Triple(Self, proc'[t].p, message.tid))
              /\ proc'[t].err = "nil"
                 => /\ proc'[t].pc = "commit"
                    /\ SendsExtension(out', proc'[t].resp)
                    /\ ~HookAction(out', "TerminateWithError")
        /\ Running(t, "gsReqRecdHook", "commit") /\ proc'[t].pc = "done"
           => /\ graphsyncRequestMap'[graphsyncKey(proc[t].rid, proc[t].p)]
                    = proc[t].chid
              /\ channelIDMap'[proc[t].chid] = graphsyncKey(proc[t].rid, proc[t].p)
              /\ HookAction(out', "ValidateRequest")
              /\ Events(out') = {}
      ]_vars

ExtensionHooks == {"gsRequestUpdatedHook", "gsIncomingResponseHook"}

\* thread t takes the step of one of the two hooks that runs processExtension
\* on a message carried by a well-formed extension
ProcessesMessage(t) ==
    /\ proc[t].op \in ExtensionHooks /\ proc[t].pc = "process"
    /\ proc'[t].pc = "done"
    /\ GetTransferData(proc'[t].data).err = "nil"
    /\ GetTransferData(proc'[t].data).msg # NoMsg

\* the direction of msg matches the original side of channel chid: a request
\* on a channel the remote peer initiated, a response on one the local peer
\* initiated
DirectionMatches(chid, msg) ==
    IF msg.isRq THEN chid.Initiator # Self ELSE chid.Initiator = Self

DirectionErrors ==
    {"received request on response channel", "received response on request channel"}

\* C23: in gsIncomingResponseHook and gsRequestUpdatedHook for a known
\* channel a message reaches the handler only if its direction matches the
\* channel's side; a mismatching message raises no event, terminates this
\* hook alone with a direction error and leaves the store as it was.
C23_DirectionChecked ==
    [][\A t \in Threads :
        ProcessesMessage(t)
        => LET msg == GetTransferData(proc'[t].data).msg IN
           /\ Events(out') # {}
              => /\ DirectionMatches(proc[t].chid, msg)
                 /\ RaisedOnly(out', IF msg.isRq THEN "OnRequestReceived"
                                     ELSE "OnResponseReceived", proc[t].chid)
           /\ ~DirectionMatches(proc[t].chid, msg)
              => /\ Events(out') = {}
                 /\ Len(out') = 1
                 /\ out'[1].kind = "hook" /\ out'[1].name = "TerminateWithError"
                 /\ out'[1].err \in DirectionErrors
                 /\ out'[1].key = graphsyncKey(proc[t].rid,
                        IF proc[t].op = "gsRequestUpdatedHook" THEN proc[t].p ELSE Self)
                 /\ store' = store
      ]_vars

\* C23 witness: gsIncomingResponseHook got a response message on a channel
\* the remote peer initiated and terminated with the direction error
C23_Witness ==
    \E t \in Threads :
        /\ proc[t].op = "gsIncomingResponseHook" /\ proc[t].pc = "done"
        /\ ~GetTransferData(proc[t].data).msg.isRq
        /\ GetTransferData(proc[t].data).msg # NoMsg
        /\ proc[t].chid.Initiator # Self
        /\ channelIDMap[proc[t].chid] = graphsyncKey(proc[t].rid, Self)
        /\ proc[t].err = "received response on request channel"
        /\ Len(out) = 1 /\ out[1].name = "TerminateWithError"

Sentinels == {"ErrPause", "ErrResume"}

\* C24: when the handler called by gsIncomingResponseHook or
\* gsRequestUpdatedHook returns the Pause or Resume sentinel the hook does
\* not terminate the request; it terminates it when the handler returns any
\* other error.
C24_SentinelsDoNotTerminate ==
    [][\A t \in Threads :
        ProcessesMessage(t)
        => \A n \in Events(out') :
            /\ out'[n].err \in Sentinels => ~HookAction(out', "TerminateWithError")
            /\ out'[n].err \notin Sentinels \cup {"nil"}
               => HookAction(out', "TerminateWithError")
      ]_vars

\* the calls of a step terminate the hook's request with err, once
TerminatesWith(calls, err) ==
    Cardinality({n \in 1..Len(calls) :
        calls[n].name = "TerminateWithError" /\ calls[n].err = err}) = 1
    /\ \A n \in 1..Len(calls) :
        calls[n].name = "TerminateWithError" => calls[n].err = err

\* C25: when the handler called from gsReqRecdHook returns an error other
\* than Pause the hook still sends a returned response as extension data,
\* terminates the request with that error, does not validate it and leaves
\* the store without a binding or a progress record made by it; when the
\* handler returns Pause the hook pauses the response, binds the channel
\* and validates the request.
C25_HandlerErrors ==
    [][\A t \in Threads :
        /\ WellFormedRequest(t) /\ proc'[t].err \notin {"nil", "ErrPause"}
           => /\ proc'[t].pc = "done"
              /\ SendsExtension(out', proc'[t].resp)
              /\ TerminatesWith(out', proc'[t].err)
              /\ ~HookAction(out', "ValidateRequest")
              /\ ~HookAction(out', "PauseResponse")
              /\ store' = store
        /\ WellFormedRequest(t) /\ proc'[t].err = "ErrPause"
           => /\ proc'[t].pc = "commit"
              /\ SendsExtension(out', proc'[t].resp)
              /\ HookAction(out', "PauseResponse")
              /\ ~HookAction(out', "TerminateWithError")
        /\ Running(t, "gsReqRecdHook", "commit") /\ proc'[t].pc = "done"
           /\ proc[t].err = "ErrPause"
           => /\ graphsyncRequestMap'[graphsyncKey(proc[t].rid, proc[t].p)]
                    = proc[t].chid
              /\ channelIDMap'[proc[t].chid] = graphsyncKey(proc[t].rid, proc[t].p)
              /\ responseProgressMap'[proc[t].chid] # 0
              /\ HookAction(out', "ValidateRequest")
              /\ ~HookAction(out', "TerminateWithError")
      ]_vars

\* C25 witness: gsReqRecdHook has sent the handler's response and
\* terminated the request with the handler's error, the channel unbound
C25_Witness ==
    \E t \in Threads :
        /\ proc[t].op = "gsReqRecdHook" /\ proc[t].pc = "done"
        /\ proc[t].err = "error" /\ proc[t].resp # NoMsg
        /\ HookAction(out, "SendExtensionData")
        /\ HookAction(out, "TerminateWithError")
        /\ channelIDMap[proc[t].chid] = NoKey
        /\ responseProgressMap[proc[t].chid] = 0

\* C26: gsCompletedResponseListener(p, request, status) for a known
\* (requestID, p) raises OnChannelCompleted(chid, success), success being
\* true exactly for RequestCompletedFull, and nothing for RequestCancelled,
\* and then removes every entry of chid from the store; for an unknown
\* (requestID, p) it raises nothing and changes nothing.
C26_CompletedResponse ==
    [][\A t \in Threads :
        /\ Started(t, "gsCompletedResponseListener")
           => LET chid == graphsyncRequestMap[graphsyncKey(proc'[t].rid, proc'[t].p)] IN
              /\ NoEffect
              /\ chid = NoChid => proc'[t].pc = "done"
              /\ chid # NoChid
                 => /\ proc'[t].chid = chid
                    /\ proc'[t].pc = IF proc'[t].status = "RequestCancelled"
                                     THEN "cleanup" ELSE "call"
        /\ Running(t, "gsCompletedResponseListener", "call") /\ proc'[t] # proc[t]
           => /\ RaisedOnly(out', "OnChannelCompleted", proc[t].chid)
              /\ \A n \in Events(out') :
                    out'[n].ok = (proc[t].status = "RequestCompletedFull")
              /\ proc'[t].pc = "cleanup"
        /\ Running(t, "gsCompletedResponseListener", "cleanup") /\ proc'[t] # proc[t]
           => /\ out' = <<>>
              /\ proc'[t].pc = "done"
              /\ channelIDMap'[proc[t].chid] = NoKey
              /\ \A k \in Keys : graphsyncRequestMap'[k] # proc[t].chid
              /\ pending'[proc[t].chid] = 0
              /\ contextCancelMap'[proc[t].chid] = 0
              /\ responseProgressMap'[proc[t].chid] = 0
              /\ pendingExtensions'[proc[t].chid] = <<>>
              /\ proc[t].chid \notin requestorCancelledMap'
      ]_vars

\* C27: a channel-id in the requestor-cancelled set has a reverse entry
C27_FlagImpliesBinding ==
    \A c \in Chids : c \in requestorCancelledMap => channelIDMap[c] # NoKey

\* thread t takes the step of receiveRequest that dispatches the response
Dispatches(t) ==
    Running(t, "receiveRequest", "dispatch") /\ proc'[t] # proc[t]

\* the calls of a step are one request to the block transport: to peer p,
\* for root, carrying msg as extension
OneRequest(calls, p, root, msg) ==
    /\ Len(calls) = 1
    /\ calls[1].kind = "gs" /\ calls[1].name = "Request"
    /\ calls[1].key.p = p /\ calls[1].root = root
    /\ GetTransferData(calls[1].ext).msg = msg

\* the calls of a step are one message on the side channel: msg to peer p
OneMessage(calls, p, msg) ==
    /\ Len(calls) = 1
    /\ calls[1].kind = "network" /\ calls[1].name = "SendMessage"
    /\ calls[1].key.p = p
    /\ GetTransferData(calls[1].ext).msg = msg

\* C28: when receiveRequest got a response from the handler without the
\* Resume sentinel it dispatches it by one route: an accepted response that
\* is no update, to a push request, goes out as the extension of a
\* block-transport request to the sender for the request's root and
\* selector, any other response as a message on the side channel; the
\* outgoing-request hook of that request binds (Initiator=sender,
\* Responder=self, ID=TransferID).
C28_ResponseRoute ==
    [][\A t \in Threads :
        /\ Started(t, "receiveRequest")
           /\ proc'[t].resp # NoMsg /\ proc'[t].err # "ErrResume"
           => proc'[t].pc = "dispatch"
        /\ Dispatches(t)
           => IF ~proc[t].update /\ proc[t].accepted /\ ~proc[t].pull
              THEN /\ OneRequest(out', proc[t].p, proc[t].root, proc[t].resp)
                   /\ OutgoingChannelID(out'[1].key.p, out'[1].ext)
                        = Triple(proc[t].p, Self, proc[t].resp.tid)
              ELSE OneMessage(out', proc[t].p, proc[t].resp)
        /\ Running(t, "gsOutgoingRequestHook", "commit") /\ proc'[t].pc = "done"
           => /\ channelIDMap'[proc[t].chid] = graphsyncKey(proc[t].rid, Self)
              /\ graphsyncRequestMap'[graphsyncKey(proc[t].rid, Self)] = proc[t].chid
      ]_vars

\* thread t is in the receiver after its handler returned sentinel
Holds(t, sentinel) ==
    /\ proc[t].op \in ReceiverOps /\ proc[t].pc \notin {"idle", "done"}
    /\ proc[t].err = sentinel

\* the calls of a step are one control call of the transport: name, on chid,
\* with msg (NoMsg for none)
OneControlCall(calls, name, chid, msg) ==
    /\ Len(calls) = 1
    /\ calls[1].kind = "transport" /\ calls[1].name = name
    /\ calls[1].chid = chid
    /\ calls[1].ext = IF msg = NoMsg THEN Absent ELSE ToNet(msg)

\* the receiver of thread t goes over to the control call name
TailCall(t, name, msg) ==
    /\ OneControlCall(out', name, proc[t].chid, msg)
    /\ proc'[t].op = name /\ proc'[t].chid = proc[t].chid
    /\ proc'[t].caller = NoCaller

\* C29: a receiver whose handler returned the Resume sentinel makes, as its
\* next and last step, exactly one ResumeChannel call on the channel-id, with
\* the response for an incoming request and without a message for an
\* incoming response, and neither opens a channel nor sends on the side
\* channel; a receiver whose handler returned the Pause sentinel makes
\* exactly one PauseChannel call on the channel-id as its last step, which
\* for an incoming request with a response follows the dispatch of that
\* response.
C29_SentinelCalls ==
    [][\A t \in Threads :
        /\ Holds(t, "ErrResume") /\ proc'[t] # proc[t]
           => /\ proc[t].pc = "resume"
              /\ TailCall(t, "ResumeChannel",
                          IF proc[t].op = "receiveRequest" THEN proc[t].resp
                          ELSE NoMsg)
        /\ Holds(t, "ErrPause") /\ proc'[t] # proc[t]
           => \/ /\ Dispatches(t)
                 /\ Holds(t, "ErrPause")' /\ proc'[t].pc = "pause"
              \/ /\ proc[t].pc = "pause"
                 /\ TailCall(t, "PauseChannel", NoMsg)
        /\ \A op \in ReceiverOps : Started(t, op) =>
              /\ Len(out') = 1 /\ out'[1].kind = "manager"
              /\ proc'[t].err = "ErrResume" => proc'[t].pc = "resume"
              /\ proc'[t].err = "ErrPause" =>
                    proc'[t].pc = IF proc'[t].resp # NoMsg THEN "dispatch"
                                  ELSE "pause"
      ]_vars

\* the errors of a handler that are neither sentinel
PlainErrors == HandlerErrs \ {"nil", "ErrPause", "ErrResume"}

\* C30: a receiver whose handler returned an error that is neither sentinel
\* calls CloseChannel on the channel-id and then returns the handler's
\* error, whatever the response is and whether or not its dispatch or
\* CloseChannel fails.
C30_ErrorCloses ==
    [][\A t \in Threads :
        /\ \E e \in PlainErrors : Holds(t, e) /\ proc'[t] # proc[t]
           => \/ Dispatches(t) /\ proc'[t].pc = "close"
              \/ /\ proc[t].pc = "close"
                 /\ OneControlCall(out', "CloseChannel", proc[t].chid, NoMsg)
                 /\ proc'[t].op = "CloseChannel"
                 /\ proc'[t].caller = [op |-> proc[t].op, err |-> proc[t].err]
        /\ proc[t].caller # NoCaller /\ proc'[t] # proc[t]
           => \/ proc'[t].caller = proc[t].caller /\ proc'[t].op = "CloseChannel"
              \/ /\ proc[t].pc = "done"
                 /\ proc'[t].op = proc[t].caller.op /\ proc'[t].pc = "done"
                 /\ proc'[t].result = proc[t].caller.err
                 /\ proc'[t].caller = NoCaller
        /\ \A op \in ReceiverOps :
              Started(t, op) /\ proc'[t].err \in PlainErrors =>
                 proc'[t].pc = IF proc'[t].resp # NoMsg THEN "dispatch"
                               ELSE "close"
      ]_vars

\* the hook actions among the calls of a step
Actions(calls) == {n \in 1..Len(calls) : calls[n].kind = "hook"}

\* the calls of a step pause or terminate by the one hook action name
OneVerdict(calls, name) ==
    LET verdicts == {n \in Actions(calls) : calls[n].name # "SendExtensionData"} IN
    /\ Cardinality(verdicts) = 1
    /\ \A n \in verdicts : calls[n].name = name

\* the calls of a step neither pause nor terminate
NoVerdict(calls) ==
    \A n \in Actions(calls) : calls[n].name = "SendExtensionData"

\* C31: gsIncomingBlockHook for a response whose (requestID, self) is bound
\* raises OnDataReceived once, for the bound channel-id, and maps what the
\* handler returned to one hook action: the Pause sentinel pauses the request
\* and does not terminate it, any other error terminates the request with
\* that error, no error gives no action; for a request ID that is not bound
\* the hook raises no event and takes no action.
C31_IncomingBlock ==
    [][\A t \in Threads :
        /\ Started(t, "gsIncomingBlockHook") =>
              LET chid == graphsyncRequestMap[graphsyncKey(proc'[t].rid, Self)] IN
              IF chid = NoChid
              THEN NoEffect /\ proc'[t].pc = "done"
              ELSE NoEffect /\ proc'[t].pc = "call" /\ proc'[t].chid = chid
        /\ Running(t, "gsIncomingBlockHook", "call") /\ proc'[t] # proc[t] =>
              /\ RaisedOnly(out', "OnDataReceived", proc[t].chid)
              /\ out'[1].kind = "event"
              /\ Actions(out') = 2..Len(out')
              /\ IF out'[1].err = "nil" THEN Len(out') = 1
                 ELSE IF out'[1].err = "ErrPause"
                 THEN Len(out') = 2 /\ out'[2].name = "PauseRequest"
                 ELSE /\ Len(out') = 2 /\ out'[2].name = "TerminateWithError"
                      /\ out'[2].err = out'[1].err
              /\ store' = store
              /\ proc'[t].pc = "done"
      ]_vars

\* C31 witness: the hook paused a bound request after OnDataReceived
\* returned the Pause sentinel
C31_Witness ==
    \E t \in Threads :
        /\ Running(t, "gsIncomingBlockHook", "done")
        /\ Len(out) = 2 /\ out[1].name = "OnDataReceived"
        /\ out[1].err = "ErrPause" /\ out[2].name = "PauseRequest"
        /\ \E r \in RequestIDs :
                graphsyncRequestMap[graphsyncKey(r, Self)] = out[1].chid

Progress(c) == heap[responseProgressMap[c]]

\* C33: for every block-progress record, maximumSent never decreases while
\* the record exists, and whenever no gsOutgoingBlockHook is in progress for
\* the channel currentSent <= maximumSent and maximumSent is the largest
\* value currentSent has ever had.
C33_Watermarks ==
    [][\A c \in Chids :
        responseProgressMap[c] # 0 /\ responseProgressMap'[c] = responseProgressMap[c]
        => /\ Progress(c)'.maximumSent >= Progress(c).maximumSent
           /\ ~InBlockHook(c)'
              => /\ Progress(c)'.currentSent <= Progress(c)'.maximumSent
                 /\ Progress(c)'.maximumSent = Progress(c)'.peak
      ]_vars

\* no hook that reads or writes the block-progress record of channel c is
\* in progress
Quiet(c) ==
    \A t \in Threads :
        proc[t].op \in {"gsOutgoingBlockHook", "gsReqRecdHook"} /\ proc[t].chid = c
        => proc[t].pc = "done"

\* C34: when gsOutgoingBlockHook runs concurrently with another
\* gsOutgoingBlockHook or with the reset of gsReqRecdHook for the same
\* channel, then once the hooks have returned the record and the events are
\* those of the hooks run one after the other: currentSent is the sum of the
\* block sizes added since the last reset (no increment is lost),
\* currentSent <= maximumSent, and OnDataSent was raised once per block-size
\* step of maximumSent (no block is reported twice).
C34_AsSequential ==
    \A c \in Chids :
        responseProgressMap[c] # 0 /\ Quiet(c)
        => \A size \in BlockSizes :
            /\ Progress(c).currentSent = size * Progress(c).adds
            /\ Progress(c).currentSent <= Progress(c).maximumSent
            /\ hist[c].sent < MaxCount => Progress(c).maximumSent = size * hist[c].sent

\* C35: when gsReqRecdHook runs again for a channel that has a progress
\* record, currentSent restarts at 0 and maximumSent is kept; a following
\* gsOutgoingBlockHook raises no OnDataSent while the block sizes added since
\* the restart do not exceed maximumSent, and raises OnDataSent, moving
\* maximumSent up to currentSent, for every block after that.
C35_Restart ==
    [][\A t \in Threads :
        /\ Running(t, "gsReqRecdHook", "commit") /\ proc'[t] # proc[t]
           /\ responseProgressMap[proc[t].chid] # 0
           => /\ responseProgressMap' = responseProgressMap
              /\ Progress(proc[t].chid)'.currentSent = 0
              /\ Progress(proc[t].chid)'.maximumSent
                    = Progress(proc[t].chid).maximumSent
        /\ Running(t, "gsOutgoingBlockHook", "store") /\ proc'[t] # proc[t]
           => \A size \in BlockSizes :
                heap'[proc[t].rp].currentSent = size * heap'[proc[t].rp].adds
        /\ Running(t, "gsOutgoingBlockHook", "test") /\ proc'[t] # proc[t]
           => IF heap[proc[t].rp].currentSent <= heap[proc[t].rp].maximumSent
              THEN proc'[t].pc = "done" /\ NoEffect
              ELSE proc'[t].pc = "max" /\ NoEffect
        /\ Running(t, "gsOutgoingBlockHook", "max") /\ proc'[t] # proc[t]
           => /\ proc'[t].pc = "call"
              /\ heap'[proc[t].rp].maximumSent = heap[proc[t].rp].currentSent
              /\ heap'[proc[t].rp].currentSent = heap[proc[t].rp].currentSent
        /\ Running(t, "gsOutgoingBlockHook", "call") /\ proc'[t] # proc[t]
           => RaisedOnly(out', "OnDataSent", proc[t].chid)
      ]_vars

\* C35 witness: two blocks were reported, the request came again, and the
\* first block after the restart raised nothing
C35_Witness ==
    \E t \in Threads :
        /\ Running(t, "gsOutgoingBlockHook", "done") /\ out = <<>>
        /\ proc[t].chid \in Chids /\ responseProgressMap[proc[t].chid] # 0
        /\ \A size \in BlockSizes :
            /\ Progress(proc[t].chid).currentSent = size
            /\ Progress(proc[t].chid).maximumSent = 2 * size
        /\ hist[proc[t].chid].sent = 2

\* C36: every forward-map entry whose key peer is a remote peer points to a
\* channel-id that has a block-progress record, and no gsOutgoingBlockHook
\* found the record of the channel it resolved missing.
C36_ProgressForBinding ==
    /\ \A key \in Keys :
        key.p \in RemotePeers /\ graphsyncRequestMap[key] # NoChid
        => responseProgressMap[graphsyncRequestMap[key]] # 0
    /\ \A t \in Threads :
        proc[t].op = "gsOutgoingBlockHook" => proc[t].result # "panic"

\* the control call of thread t waits on a pending-signal that is no longer
\* in the store and was not closed
WaitsOnRemoved(t) ==
    /\ Waiting(t)
    /\ pending[proc[t].chid] # proc[t].ch
    /\ proc[t].ch \notin closedChans

\* C37: a control call that waits on the pending-signal of its channel is
\* eventually released once the signal has been removed from the store
\* without the outgoing-request hook closing it (the error stream ended,
\* the channel was cleaned up, or OpenChannel replaced the signal), although
\* its context does not end.
C37_ReleasedOnRemoval ==
    \A t \in Threads : WaitsOnRemoved(t) ~> ~Waiting(t)

\* key is an earlier request of channel chid: the channel is bound to
\* another request by now
Earlier(key, chid) ==
    /\ chid # NoChid
    /\ channelIDMap[chid] # NoKey /\ channelIDMap[chid] # key

\* C38: once gsReqRecdHook has rebound a channel to a new request, the
\* cleanup of gsCompletedResponseListener and gsRequestorCancelledListener
\* for the earlier request ID of the channel leave the channel's reverse
\* binding and progress record in place and do not mark the channel as
\* requestor-cancelled.
C38_EarlierRequest ==
    [][\A t \in Threads :
        /\ Running(t, "gsCompletedResponseListener", "cleanup")
           /\ proc'[t] # proc[t]
           /\ Earlier(graphsyncKey(proc[t].rid, proc[t].p), proc[t].chid)
           => /\ channelIDMap'[proc[t].chid] = channelIDMap[proc[t].chid]
              /\ responseProgressMap'[proc[t].chid] = responseProgressMap[proc[t].chid]
        /\ Started(t, "gsRequestorCancelledListener")
           /\ Earlier(proc'[t].key, graphsyncRequestMap[proc'[t].key])
           => requestorCancelledMap' = requestorCancelledMap
      ]_vars

\* the calls of a step hold the control call name of the transport
HasControlCall(calls, name) ==
    \E n \in 1..Len(calls) : calls[n].kind = "transport" /\ calls[n].name = name

\* C39: in receiveRequest a response the handler returned is dispatched, by
\* OpenChannel or by a message on the side channel, in every case but the
\* Resume sentinel, also when the handler returned an error that is no
\* sentinel, and the dispatch comes before the PauseChannel or CloseChannel
\* call the error causes.
C39_DispatchFirst ==
    [][\A t \in Threads :
        /\ Started(t, "receiveRequest") /\ proc'[t].resp # NoMsg
           => /\ proc'[t].pc = IF proc'[t].err = "ErrResume" THEN "resume"
                               ELSE "dispatch"
              /\ Len(out') = 1 /\ out'[1].kind = "manager"
        /\ Dispatches(t)
           => /\ proc[t].resp # NoMsg /\ proc[t].err # "ErrResume"
              /\ \/ OneRequest(out', proc[t].p, proc[t].root, proc[t].resp)
                 \/ OneMessage(out', proc[t].p, proc[t].resp)
        /\ proc'[t].op = "receiveRequest" /\ proc'[t].pc \in {"pause", "close"}
           /\ proc'[t].resp # NoMsg /\ proc'[t] # proc[t]
           => Dispatches(t)
        /\ proc[t].op = "receiveRequest" /\ proc[t].resp # NoMsg
           /\ proc[t].pc # "done" /\ proc'[t] # proc[t]
           /\ (HasControlCall(out', "PauseChannel") \/ HasControlCall(out', "CloseChannel"))
           => proc[t].pc \in {"pause", "close"}
      ]_vars

\* C39 witness: the handler returned a response and an error that is no
\* sentinel, the response has been dispatched and CloseChannel comes next
C39_Witness ==
    \E t \in Threads :
        /\ Running(t, "receiveRequest", "close")
        /\ proc[t].resp # NoMsg /\ proc[t].err = "error"
        /\ Len(out) = 1 /\ out[1].name \in {"Request", "SendMessage"}

\* C40: an incoming block-transport request that carries a data-transfer
\* extension and matches no recorded channel is terminated with an error
\* that is not nil, is not validated, and gets no response extension.
C40_UnmatchedRequest ==
    [][\A t \in Threads :
        /\ Started(t, "graphsyncImpl.gsReqRecdHook")
        /\ GetTransferData(proc'[t].data).msg # NoMsg
        /\ ~proc'[t].known
        => /\ Len(out') = 1
           /\ out'[1].kind = "hook" /\ out'[1].name = "TerminateWithError"
           /\ out'[1].err # "nil"
           /\ ~HookAction(out', "ValidateRequest")
           /\ ~HookAction(out', "SendExtensionData")
      ]_vars

====
